---- MODULE Spec2Model ----
(***************************************************************************)
(* A model of wgsl/analyze/Grammar.py: JSON decoding, canonicalization,    *)
(* First and Follow sets, LR(1) and LALR(1) item sets, and the LALR(1)     *)
(* action table.                                                           *)
(*                                                                         *)
(* Python strings are modelled as sequences of code points, so that the    *)
(* orderings the program takes from string comparison (sorted work lists,  *)
(* rendered item sets) are computed, not assumed.  Python dicts are        *)
(* modelled as sequences of [k, v] entries in insertion order.             *)
(***************************************************************************)
EXTENDS Integers, Sequences, FiniteSets, TLC

VARIABLES
    pc,             \* position of the run inside Grammar.Load / LR1_ItemSets / LALR1
    json_rules,     \* pass0["rules"]: the JSON rule dictionary given to Grammar.Load
    start_symbol,   \* Grammar.start_symbol
    rules,          \* Grammar.rules
    result,         \* canonicalize_grammar: the dictionary being built
    snap,           \* canonicalize_grammar: `rules = dict(result)`, the snapshot of a pass
    ci,             \* position of the running `for` loop in its list
    keep_going,     \* the `keep_going` flag of the running fixed-point loop
    first,          \* the `first` attribute of the Rule objects that were assigned one
    follow,         \* the `follow` attribute of the Rule objects that were assigned one
    hash_order,     \* the order in which this process iterates a set of terminals
    max_item_sets,  \* argument of LALR1 (None is -1)
    las,            \* the LookaheadSet objects: las[r] is the content of object r
    isets,          \* the ItemSet objects kept by the run: [items, core_index]
    item_set_core_index,  \* Grammar.item_set_core_index: the cores, the i-th has index i-1
    LR1_item_sets_result, \* LR1_ItemSets: the set of item sets found so far
    dirty_set,      \* LR1_ItemSets: the item sets found in the current round
    work_list,      \* the sorted work list of the current round
    lr1_item_sets,  \* the list LR1_ItemSets returned
    by_index,       \* LALR1: core index -> the item set of that core
    LALR1_item_sets_result, \* LALR1: the set of item sets found so far
    item_sets,      \* LALR1: the sorted list of item sets (first element of the result)
    action_table,   \* LALR1: the action table, entries in insertion order
    conflicts,      \* LALR1: the list of conflicts
    reduced_items,  \* LALR1: item -> reduction index, the i-th key has index i-1
    pending,        \* LALR1: the addAction calls the running loop has still to make
    reductions,     \* LALR1: sorted(reduced_items.keys()) (third element of the result)
    run_no,         \* 1 in the first run on the JSON text, 2 in the second
    first_run,      \* what the first run returned, as its caller keeps it
    lookaheads,     \* the LookaheadSet objects a caller built itself: [set, str, has_end_of_text]
    returned,       \* what the caller's last constructor or method call gave back
    visited,        \* the entries a pass that takes them in any order has visited
    options,        \* rewrite.py, Processor.options: [sot_ebnf, sot_bs]
    lines,          \* rewrite.py, Processor.process: the argument `lines`
    line_num,       \* rewrite.py, Processor.process: the number of lines taken
    state,          \* rewrite.py, Processor.process: the local `state`
    current_def,    \* rewrite.py, Processor.process: the local `current_def`
    self_result     \* rewrite.py, Processor.result: the tagged output lines

----------------------------------------------------------------------------
(* Strings as sequences of code points *)

s_language == <<108,97,110,103,117,97,103,101>>
s_EndOfText == <<69,110,100,79,102,84,101,120,116>>
s_translation_unit == <<116,114,97,110,115,108,97,116,105,111,110,95,117,110,105,116>>
s_C == <<67>>
s_b == <<98>>
s_c == <<99>>
s_d == <<100>>
s_S == <<83>>
s_A == <<65>>
s_s == <<115>>
s_x == <<120>>
s_y == <<121>>
s_z == <<122>>
s_at == <<97,116>>
s_atsign == <<64>>
\* the names and literals of DRAGON_BOOK_EXAMPLE_4_17 and SIMPLE_WGSL of test.py
s_E == <<69>>
s_T == <<84>>
s_F == <<70>>
s_Eprime == <<69, 112, 114, 105, 109, 101>>
s_Tprime == <<84, 112, 114, 105, 109, 101>>
s_plus == <<112, 108, 117, 115>>
s_times == <<116, 105, 109, 101, 115>>
s_paren_left == <<112, 97, 114, 101, 110, 95, 108, 101, 102, 116>>
s_paren_right == <<112, 97, 114, 101, 110, 95, 114, 105, 103, 104, 116>>
s_id == <<105, 100>>
s_plus_sign == <<43>>
s_star_sign == <<42>>
s_lparen == <<40>>
s_rparen == <<41>>
s_global_decl == <<103, 108, 111, 98, 97, 108, 95, 100, 101, 99, 108>>
s_type_alias_decl == <<116, 121, 112, 101, 95, 97, 108, 105, 97, 115, 95, 100, 101, 99, 108>>
s_function_decl == <<102, 117, 110, 99, 116, 105, 111, 110, 95, 100, 101, 99, 108>>
s_function_header == <<102, 117, 110, 99, 116, 105, 111, 110, 95, 104, 101, 97, 100, 101, 114>>
s_ident == <<105, 100, 101, 110, 116>>
s_blankspace == <<95, 98, 108, 97, 110, 107, 115, 112, 97, 99, 101>>
s_fn == <<102, 110>>
s_type == <<116, 121, 112, 101>>
s_equal == <<101, 113, 117, 97, 108>>
s_semicolon == <<115, 101, 109, 105, 99, 111, 108, 111, 110>>
s_brace_left == <<98, 114, 97, 99, 101, 95, 108, 101, 102, 116>>
s_brace_right == <<98, 114, 97, 99, 101, 95, 114, 105, 103, 104, 116>>
s_equal_sign == <<61>>
s_semicolon_sign == <<59>>
s_lbrace == <<123>>
s_rbrace == <<125>>
s_ident_pattern == <<91, 97, 45, 122, 93, 43>>
s_blank_pattern == <<92, 115, 43>>

\* EPSILON, MIDDLE_DOT, LANGUAGE and the punctuation used in renderings
EPSILON == <<949>>
MIDDLE_DOT == <<183>>
LBRACE == <<123>>
RBRACE == <<125>>
LANGUAGE == s_language
SPACE == <<32>>
NEWLINE == <<10>>
SLASH == <<47>>
DOT == <<46>>
QUOTE == <<39>>

\* str(i) for a non-negative integer
RECURSIVE str_int(_)
str_int(i) ==
    IF i < 10 THEN <<48 + i>> ELSE str_int(i \div 10) \o <<48 + (i % 10)>>

\* Python's `<` on strings: lexicographic on code points, a proper prefix is smaller
str_less(a, b) ==
    LET n == IF Len(a) < Len(b) THEN Len(a) ELSE Len(b)
        D == {i \in 1..n : a[i] # b[i]}
    IN  IF D = {} THEN Len(a) < Len(b)
        ELSE LET i == CHOOSE x \in D : \A y \in D : x <= y IN a[i] < b[i]

\* concatenation of a sequence of sequences
RECURSIVE concat(_)
concat(ss) == IF Len(ss) = 0 THEN <<>> ELSE Head(ss) \o concat(Tail(ss))

\* sep.join(parts)
RECURSIVE join(_, _)
join(sep, parts) ==
    IF Len(parts) = 0 THEN <<>>
    ELSE IF Len(parts) = 1 THEN parts[1]
    ELSE parts[1] \o sep \o join(sep, Tail(parts))

\* sorted(list of strings): insertion into an ascending list (the result of a
\* sort of strings is determined by the multiset of strings)
RECURSIVE insert_sorted(_, _)
insert_sorted(s, sorted) ==
    IF Len(sorted) = 0 THEN <<s>>
    ELSE IF str_less(s, Head(sorted)) THEN <<s>> \o sorted
    ELSE <<Head(sorted)>> \o insert_sorted(s, Tail(sorted))

RECURSIVE sorted_strs(_)
sorted_strs(l) ==
    IF Len(l) = 0 THEN <<>> ELSE insert_sorted(Head(l), sorted_strs(Tail(l)))

SeqToSet(q) == {q[i] : i \in 1..Len(q)}

----------------------------------------------------------------------------
(* Python dict: entries in insertion order *)

dict_keys(d) == [i \in 1..Len(d) |-> d[i].k]
dict_has(d, k) == \E i \in 1..Len(d) : d[i].k = k
dict_get(d, k) == d[CHOOSE i \in 1..Len(d) : d[i].k = k].v
\* d[k] = v : an existing key keeps its place
dict_set(d, k, v) ==
    IF dict_has(d, k)
    THEN [i \in 1..Len(d) |-> IF d[i].k = k THEN [k |-> k, v |-> v] ELSE d[i]]
    ELSE Append(d, [k |-> k, v |-> v])

----------------------------------------------------------------------------
(* Rule objects (class Rule and its subclasses) *)

Fixed(content) == [t |-> "Fixed", c |-> content, ch |-> <<>>]
Pattern(content) == [t |-> "Pattern", c |-> content, ch |-> <<>>]
Symbol(content) == [t |-> "Symbol", c |-> content, ch |-> <<>>]
Empty == [t |-> "Empty", c |-> <<>>, ch |-> <<>>]
EndOfText == [t |-> "EndOfText", c |-> <<>>, ch |-> <<>>]
Choice(children) == [t |-> "Choice", c |-> <<>>, ch |-> children]
SeqRule(children) == [t |-> "Seq", c |-> <<>>, ch |-> children]
Repeat1(children) == [t |-> "Repeat1", c |-> <<>>, ch |-> children]

is_empty(r) == r.t = "Empty"
is_terminal(r) == r.t \in {"EndOfText", "Fixed", "Pattern"}
is_symbol(r) == r.t = "Symbol"
is_nonterminal(r) == r.t \in {"Choice", "Seq", "Repeat1"}
ContainerRule(r) == r.t \in {"Choice", "Seq", "Repeat1"}
LeafRule(r) == r.t \in {"Fixed", "Pattern", "Symbol", "Empty", "EndOfText"}

----------------------------------------------------------------------------
(* JSON documents and their decoding (json_hook, walk, Grammar.__init__) *)

J_STRING(v) == [type |-> "STRING", value |-> v, members |-> <<>>]
J_PATTERN(v) == [type |-> "PATTERN", value |-> v, members |-> <<>>]
J_SYMBOL(n) == [type |-> "SYMBOL", value |-> n, members |-> <<>>]
J_BLANK == [type |-> "BLANK", value |-> <<>>, members |-> <<>>]
J_TOKEN(content) == [type |-> "TOKEN", value |-> <<>>, members |-> <<content>>]
J_REPEAT1(content) == [type |-> "REPEAT1", value |-> <<>>, members |-> <<content>>]
J_CHOICE(members) == [type |-> "CHOICE", value |-> <<>>, members |-> members]
J_SEQ(members) == [type |-> "SEQ", value |-> <<>>, members |-> members]

\* the STRING and PATTERN nodes of a JSON value in the order walk() reaches them
RECURSIVE token_nodes(_)
token_nodes(n) ==
    IF n.type \in {"STRING", "PATTERN"} THEN <<n>>
    ELSE concat([i \in 1..Len(n.members) |-> token_nodes(n.members[i])])

\* pass1 = walk(pass0, json_hook(tokens_only=True)): the memo table after the
\* pass; memoize() keeps the first node created for a name
memo_pass1(jrules) ==
    LET nodes == concat([i \in 1..Len(jrules) |-> token_nodes(jrules[i].v)])
        node(n) == IF n.type = "STRING" THEN Fixed(n.value) ELSE Pattern(n.value)
        first_at(i) == \A j \in 1..(i-1) : nodes[j].value # nodes[i].value
    IN  {[k |-> nodes[i].value, v |-> node(nodes[i])] : i \in {j \in 1..Len(nodes) : first_at(j)}}

memoize(memo, name, node) ==
    IF \E e \in memo : e.k = name THEN (CHOOSE e \in memo : e.k = name).v ELSE node

\* json_hook applied bottom-up by walk(): both passes
RECURSIVE json_hook(_, _)
json_hook(memo, dct) ==
    LET kids == [i \in 1..Len(dct.members) |-> json_hook(memo, dct.members[i])] IN
    CASE dct.type = "TOKEN" -> kids[1]
      [] dct.type = "STRING" -> memoize(memo, dct.value, Fixed(dct.value))
      [] dct.type = "PATTERN" -> memoize(memo, dct.value, Pattern(dct.value))
      [] dct.type = "BLANK" -> Empty
      [] dct.type = "CHOICE" -> Choice(kids)
      [] dct.type = "SEQ" -> SeqRule(kids)
      [] dct.type = "REPEAT1" -> Repeat1(kids)
      [] dct.type = "SYMBOL" -> memoize(memo, dct.value, Symbol(dct.value))

\* Grammar.__init__: decode, then augment with the LANGUAGE rule
Grammar_init(jrules, start) ==
    LET memo == memo_pass1(jrules)
        decoded == [i \in 1..Len(jrules) |->
                       [k |-> jrules[i].k, v |-> json_hook(memo, jrules[i].v)]]
    IN  dict_set(decoded, LANGUAGE, SeqRule(<<Symbol(start), EndOfText>>))

----------------------------------------------------------------------------
(* canonicalize_grammar *)

\* "{}/{}".format(key, i) and "{}/{}.{}".format(key, i, j)
item_key(key, i) == key \o SLASH \o str_int(i)
seq_item_key(key, i, j) == key \o SLASH \o str_int(i) \o DOT \o str_int(j)

\* canonicalize_wrap without the wrapping of a container that is not a Choice
canonicalize_wrap_kept(rs) == rs

\* the first loop: right-hand sides of containers become Choice nodes
canonicalize_wrap(rs) ==
    [n \in 1..Len(rs) |->
        [k |-> rs[n].k,
         v |-> IF ContainerRule(rs[n].v) /\ rs[n].v.t # "Choice"
               THEN Choice(<<rs[n].v>>) ELSE rs[n].v]]

\* the inner loop over the elements of a Seq alternative: from position j, with
\* the accumulated st = [res, seq_parts, made]
RECURSIVE canon_seq(_, _, _, _, _)
canon_seq(key, i, item, j, st) ==
    IF j >= Len(item.ch) THEN st
    ELSE LET seq_item == item.ch[j + 1] IN
         IF LeafRule(seq_item)
         THEN canon_seq(key, i, item, j + 1,
                        [st EXCEPT !.seq_parts = Append(@, seq_item)])
         ELSE canon_seq(key, i, item, j + 1,
                        [res |-> dict_set(st.res, seq_item_key(key, i, j), Choice(<<seq_item>>)),
                         seq_parts |-> Append(st.seq_parts, Symbol(seq_item_key(key, i, j))),
                         made |-> TRUE])

\* the loop over the alternatives of a rule's Choice: from position i, with
\* the accumulated st = [res, parts, made]
RECURSIVE canon_alts(_, _, _, _)
canon_alts(key, value, i, st) ==
    IF i >= Len(value.ch) THEN st
    ELSE LET item == value.ch[i + 1]
             ikey == item_key(key, i)
         IN
         CASE LeafRule(item) ->
                canon_alts(key, value, i + 1, [st EXCEPT !.parts = Append(@, item)])
           [] item.t = "Repeat1" ->
                canon_alts(key, value, i + 1,
                    [res |-> dict_set(st.res, ikey,
                                 Choice(<<SeqRule(<<item.ch[1], Symbol(ikey)>>), Empty>>)),
                     parts |-> Append(st.parts, Symbol(ikey)),
                     made |-> TRUE])
           [] item.t = "Choice" ->
                canon_alts(key, value, i + 1,
                    [st EXCEPT !.parts = @ \o item.ch, !.made = TRUE])
           [] item.t = "Seq" ->
                LET s == canon_seq(key, i, item, 0,
                                   [res |-> st.res, seq_parts |-> <<>>, made |-> FALSE])
                IN  canon_alts(key, value, i + 1,
                        IF s.made
                        THEN [res |-> s.res, parts |-> Append(st.parts, SeqRule(s.seq_parts)),
                              made |-> TRUE]
                        ELSE st)

\* a body that never asks for another pass
canon_rule_one_pass(res, key, value) ==
    IF LeafRule(value) THEN [res |-> dict_set(res, key, value), made |-> FALSE]
    ELSE LET st == canon_alts(key, value, 0, [res |-> res, parts |-> <<>>, made |-> FALSE])
         IN  [res |-> dict_set(st.res, key, IF st.made THEN Choice(st.parts) ELSE value),
              made |-> FALSE]

\* the body of `for key, value in rules.items()`: returns [res, made]
canon_rule(res, key, value) ==
    IF LeafRule(value) THEN [res |-> dict_set(res, key, value), made |-> FALSE]
    ELSE LET st == canon_alts(key, value, 0, [res |-> res, parts |-> <<>>, made |-> FALSE])
         IN  IF st.made
             THEN [res |-> dict_set(st.res, key, Choice(st.parts)), made |-> TRUE]
             ELSE [res |-> dict_set(st.res, key, value), made |-> FALSE]

\* one pass of the while loop over the snapshot `rules = dict(result)`, from
\* entry n, with st = [res, made]: once keep_going is set it stays set
RECURSIVE canonicalize_pass(_, _, _)
canonicalize_pass(st, snapshot, n) ==
    IF n > Len(snapshot) THEN st
    ELSE IF st.made
    THEN canonicalize_pass([res |-> canon_rule(st.res, snapshot[n].k, snapshot[n].v).res,
                            made |-> TRUE], snapshot, n + 1)
    ELSE canonicalize_pass(canon_rule(st.res, snapshot[n].k, snapshot[n].v), snapshot, n + 1)

\* the while loop: passes until one makes nothing new
RECURSIVE canonicalize_settle(_)
canonicalize_settle(st) ==
    IF ~st.made THEN st.res
    ELSE canonicalize_settle(canonicalize_pass([res |-> st.res, made |-> FALSE], st.res, 1))

\* canonicalize_grammar(rules, empty) as one call
canonicalize_grammar(rs) == canonicalize_settle([res |-> canonicalize_wrap(rs), made |-> TRUE])

----------------------------------------------------------------------------
(* Rule objects carrying First and Follow sets.                            *)
(* A leaf object is identified by its value (json_hook memoizes leaves and *)
(* Grammar owns one Empty and one EndOfText); the Choice object of a rule  *)
(* is identified by the rule's key.                                        *)

RuleObj(key) == [t |-> "Rule", c |-> key, ch |-> <<>>]

\* the object stored at rs[key]
obj_of_rule(rs, key) == IF LeafRule(dict_get(rs, key)) THEN dict_get(rs, key) ELSE RuleObj(key)

\* lookup(rule): one indirection through a Symbol
lookup(rs, o) == IF o.t = "Symbol" THEN obj_of_rule(rs, o.c) ELSE o

\* only the first child of a Choice object
alternatives_first_only(rs, o) == SubSeq(dict_get(rs, o.c).ch, 1, 1)

\* the children of a Choice object
alternatives(rs, o) == dict_get(rs, o.c).ch

attr(f, o) == IF o \in DOMAIN f THEN f[o] ELSE {}

\* Rule.derives_empty(): an Empty in the object's First set (the cached flag
\* known_to_derive_empty never differs, First sets only grow)
obj_derives_empty(f, o) == \E e \in attr(f, o) : is_empty(e)

\* a without_empty that removes nothing
without_empty_keeps_empty(s) == s

without_empty(s) == {e \in s : ~is_empty(e)}

\* the assignments before the fixed-point loop of compute_first_sets
first_initial(rs) ==
    LET terms == {rs[n].v : n \in {m \in 1..Len(rs) : is_terminal(rs[m].v) \/ is_empty(rs[m].v)}}
        nts == {n \in 1..Len(rs) : ~LeafRule(rs[n].v)}
    IN  [o \in {EndOfText, Empty} \cup terms \cup {RuleObj(rs[n].k) : n \in nts} |->
            IF o.t = "Rule"
            THEN IF \E a \in SeqToSet(dict_get(rs, o.c).ch) : is_empty(a) THEN {Empty} ELSE {}
            ELSE {o}]

names_of_non_terminals(rs) ==
    LET idx == {n \in 1..Len(rs) : ~LeafRule(rs[n].v)}
        RECURSIVE pick(_)
        pick(n) == IF n > Len(rs) THEN <<>>
                   ELSE IF n \in idx THEN <<rs[n].k>> \o pick(n + 1) ELSE pick(n + 1)
    IN  pick(1)

\* dynamic_first(rule, depth); a Seq is given by its children
RECURSIVE dynamic_first(_, _, _, _)
dynamic_first(rs, f, rule, depth) ==
    CASE rule.t = "Symbol" -> attr(f, obj_of_rule(rs, rule.c))
      [] rule.t \in {"Empty", "EndOfText", "Fixed", "Pattern"} -> attr(f, rule)
      [] rule.t = "Rule" ->
            attr(f, rule) \cup
            UNION {dynamic_first(rs, f, alt, depth + 1) : alt \in SeqToSet(alternatives(rs, rule))}
      [] rule.t = "Seq" ->
            LET items == IF depth < 2 THEN [i \in 1..Len(rule.ch) |-> lookup(rs, rule.ch[i])]
                         ELSE rule.ch
                \* the index at which the loop stops: the first item not known
                \* to derive empty, or the last item
                stops == {i \in 1..Len(items) : ~obj_derives_empty(f, items[i])}
                last == IF stops = {} THEN Len(items)
                        ELSE CHOOSE i \in stops : \A j \in stops : i <= j
                prefix == UNION {without_empty(dynamic_first(rs, f, items[i], depth + 1)) :
                                    i \in 1..last}
            IN  IF \A i \in 1..Len(rule.ch) : obj_derives_empty(f, lookup(rs, rule.ch[i]))
                THEN prefix \cup {Empty} ELSE prefix

\* an update that keeps only the new items
first_assign(f, rule, new_items) == [f EXCEPT ![rule] = new_items]

\* `rule.first = rule.first.union(new_items)`
first_union(f, rule, new_items) == [f EXCEPT ![rule] = @ \cup new_items]

\* a derives_empty that never finds a phrase to derive Empty
derives_empty_never(rs, f, phrase) == FALSE

\* derives_empty(rules, phrase)
derives_empty(rs, f, phrase) ==
    \A i \in 1..Len(phrase) : obj_derives_empty(f, lookup(rs, phrase[i]))

\* first(grammar, phrase)
first_of_phrase(rs, f, phrase) ==
    LET ph == [i \in 1..Len(phrase) |-> lookup(rs, phrase[i])]
        stops == {i \in 1..Len(ph) : ~obj_derives_empty(f, ph[i])}
        last == IF stops = {} THEN Len(ph) ELSE CHOOSE i \in stops : \A j \in stops : i <= j
        res == UNION {without_empty(attr(f, ph[i])) : i \in 1..last}
    IN  IF derives_empty(rs, f, ph) THEN res \cup {Empty} ELSE res

\* process_seq(key, seq, keep_going), from position bi with the Follow sets fo;
\* returns [fo, kg]
\* a process_seq without the step that adds Follow(A) to Follow(B)
RECURSIVE process_seq_without_lhs(_, _, _, _, _, _)
process_seq_without_lhs(rs, f, key, sq, bi, st) ==
    IF bi > Len(sq) THEN st
    ELSE LET b == sq[bi] IN
         IF is_terminal(b) \/ is_empty(b) THEN process_seq_without_lhs(rs, f, key, sq, bi + 1, st)
         ELSE LET beta == SubSeq(sq, bi + 1, Len(sq))
                  new1 == without_empty(first_of_phrase(rs, f, beta)) \ attr(st.fo, b)
                  fo1 == IF new1 # {} THEN (b :> (attr(st.fo, b) \cup new1)) @@ st.fo ELSE st.fo
              IN  process_seq_without_lhs(rs, f, key, sq, bi + 1,
                                          [fo |-> fo1, kg |-> st.kg \/ new1 # {}])

RECURSIVE process_seq(_, _, _, _, _, _)
process_seq(rs, f, key, sq, bi, st) ==
    IF bi > Len(sq) THEN st
    ELSE LET b == sq[bi] IN
         IF is_terminal(b) \/ is_empty(b) THEN process_seq(rs, f, key, sq, bi + 1, st)
         ELSE LET beta == SubSeq(sq, bi + 1, Len(sq))
                  new1 == without_empty(first_of_phrase(rs, f, beta)) \ attr(st.fo, b)
                  fo1 == IF new1 # {} THEN (b :> (attr(st.fo, b) \cup new1)) @@ st.fo ELSE st.fo
                  new2 == IF derives_empty(rs, f, beta)
                          THEN attr(fo1, obj_of_rule(rs, key)) \ attr(fo1, b) ELSE {}
                  fo2 == IF new2 # {} THEN (b :> (attr(fo1, b) \cup new2)) @@ fo1 ELSE fo1
              IN  process_seq(rs, f, key, sq, bi + 1,
                              [fo |-> fo2, kg |-> st.kg \/ new1 # {} \/ new2 # {}])

\* the body of `for key, rule in grammar.rules.items()` in compute_follow_sets:
\* every Seq alternative of the rule, in order, from alternative n
RECURSIVE follow_rule(_, _, _, _, _)
follow_rule(rs, f, key, n, st) ==
    LET rule == dict_get(rs, key) IN
    IF LeafRule(rule) \/ n > Len(rule.ch) THEN st
    ELSE IF rule.ch[n].t = "Seq"
         THEN follow_rule(rs, f, key, n + 1,
                  process_seq(rs, f, key,
                      [i \in 1..Len(rule.ch[n].ch) |-> lookup(rs, rule.ch[n].ch[i])], 1, st))
         ELSE follow_rule(rs, f, key, n + 1, st)

----------------------------------------------------------------------------
(* Items and their rendering *)

Item(lhs, rule, position) == [lhs |-> lhs, rule |-> rule, position |-> position]

\* an Item.__init__ that refuses the position after the last symbol
valid_item_before_end(rule, position) ==
    /\ LeafRule(rule) \/ rule.t = "Seq"
    /\ position >= 0
    /\ position < (IF rule.t = "Seq" THEN Len(rule.ch) ELSE IF is_empty(rule) THEN 0 ELSE 1)

\* Item.__init__ accepts a terminal, a Symbol, Empty or a Seq
valid_item(rule, position) ==
    /\ LeafRule(rule) \/ rule.t = "Seq"
    /\ position >= 0
    /\ position <= (IF rule.t = "Seq" THEN Len(rule.ch) ELSE IF is_empty(rule) THEN 0 ELSE 1)

\* Item.items
item_items(rule) ==
    IF rule.t = "Seq" THEN rule.ch ELSE IF is_empty(rule) THEN <<>> ELSE <<rule>>

\* what a call gives back: the value it returns, or the RuntimeError it raises
returns(value) == [raised |-> FALSE, value |-> value]
RuntimeError == [raised |-> TRUE, value |-> <<>>]

\* Item(lhs, rule, position): the item with its `items` list, or RuntimeError
Item_init(lhs, rule, position) ==
    IF valid_item(rule, position)
    THEN returns([item |-> Item(lhs, rule, position), items |-> item_items(rule)])
    ELSE RuntimeError

\* Repeat1(children)
Repeat1_init(children) ==
    IF Len(children) # 1 THEN RuntimeError ELSE returns(Repeat1(children))

at_end(item) == item.position = Len(item_items(item.rule))
is_kernel(item) == item.position > 0 \/ item.lhs = LANGUAGE
\* an is_accepting that does not look at the left-hand side
is_accepting_any_lhs(item) == item.position = 1

is_accepting(item) == item.position = 1 /\ item.lhs = LANGUAGE

\* Rule.__str__ of a leaf
str_rule(r) ==
    CASE r.t = "Symbol" -> r.c
      [] r.t = "Fixed" -> QUOTE \o r.c \o QUOTE
      [] r.t = "Pattern" -> SLASH \o r.c \o SLASH
      [] r.t = "Empty" -> EPSILON
      [] r.t = "EndOfText" -> s_EndOfText

\* Item.string_internal
string_internal(item) ==
    LET its == item_items(item.rule)
        parts == <<item.lhs \o <<32, 45, 62>>>> \o [i \in 1..Len(its) |-> str_rule(its[i])]
    IN  join(SPACE, SubSeq(parts, 1, 1 + item.position) \o <<MIDDLE_DOT>>
                    \o SubSeq(parts, 2 + item.position, Len(parts)))

\* a list holding the members of a finite set of strings, ascending
RECURSIVE sorted_set(_)
sorted_set(T) ==
    IF T = {} THEN <<>>
    ELSE LET m == CHOOSE x \in T : \A y \in T : ~str_less(y, x)
         IN  <<m>> \o sorted_set(T \ {m})

\* LookaheadSet.__str__
str_lookahead(la) ==
    LBRACE \o join(SPACE, sorted_set({str_rule(t) : t \in la})) \o RBRACE

\* a LookaheadSet object with its cached attributes; None is the empty
\* sequence and a cached value x is <<x>>
None == <<>>

\* LookaheadSet.reset
reset(o) == [o EXCEPT !.str = None, !.has_end_of_text = None]

\* LookaheadSet(T)
LookaheadSet_init(T) == reset([set |-> T, str |-> None, has_end_of_text |-> None])

\* LookaheadSet.rehash (self.hash is the hash of self.str)
rehash(o) ==
    [o EXCEPT !.str = <<str_lookahead(o.set)>>, !.has_end_of_text = <<EndOfText \in o.set>>]

\* str(o): the object afterwards and the string
LookaheadSet_str(o) ==
    IF o.str = None THEN [self |-> rehash(o), value |-> rehash(o).str[1]]
    ELSE [self |-> o, value |-> o.str[1]]

\* a merge that keeps the cached attributes
LookaheadSet_merge_without_reset(o, other) ==
    [self |-> [o EXCEPT !.set = @ \cup other.set],
     value |-> \E i \in other.set : i \notin o.set]

\* o.merge(other): the object afterwards and the returned flag
LookaheadSet_merge(o, other) ==
    [self |-> reset([o EXCEPT !.set = @ \cup other.set]),
     value |-> \E i \in other.set : i \notin o.set]

\* o.add(element) and o.remove(element)
LookaheadSet_add(o, element) == RuntimeError
LookaheadSet_remove(o, element) == RuntimeError

\* ItemSet.content_str of the item set with the entries `items`
content_str(l, items) ==
    join(NEWLINE, sorted_strs([i \in 1..Len(items) |->
            string_internal(items[i].k) \o <<32, 58, 32>> \o str_lookahead(l[items[i].v])]))

\* a key without the core index
pretty_key_without_index(l, is) == content_str(l, is.items)

\* ItemSet.pretty_key, "#{:8d}\n" then the content (None is -1)
pretty_key(l, is) ==
    LET digits == str_int(is.core_index)
        pad == [i \in 1..(IF Len(digits) < 8 THEN 8 - Len(digits) ELSE 0) |-> 32]
    IN  (IF is.core_index < 0 THEN <<95>> ELSE <<35>> \o pad \o digits \o NEWLINE)
        \o content_str(l, is.items)

\* sorted(refs, key): ascending by the string key[r]
RECURSIVE sorted_by(_, _)
sorted_by(T, key) ==
    IF T = {} THEN <<>>
    ELSE LET m == CHOOSE x \in T : \A y \in T : ~str_less(key[y], key[x])
         IN  <<m>> \o sorted_by(T \ {m}, key)

reversed(q) == [i \in 1..Len(q) |-> q[Len(q) + 1 - i]]

\* the members of a set of terminals in the order this process iterates them
in_hash_order(order, T) == SelectSeq(order, LAMBDA t : t \in T)

\* the value of an item set: item -> lookahead content (dict equality)
iset_value(l, items) == {<<items[i].k, l[items[i].v]>> : i \in 1..Len(items)}

\* ItemSet.kernel_core, as the set of its keys
kernel_core(items) == {items[i].k : i \in {j \in 1..Len(items) : is_kernel(items[j].k)}}

\* LookaheadSet.includesEndOfText
includesEndOfText(la) == EndOfText \in la

\* ItemSet.is_accepting of the item set with the entries `items`
ItemSet_is_accepting(l, items) ==
    \E i \in 1..Len(items) : includesEndOfText(l[items[i].v]) /\ is_accepting(items[i].k)

----------------------------------------------------------------------------
(* ItemSet.close, Grammar.register_item_set, ItemSet.merge, ItemSet.gotos   *)
(* A heap st carries las (the LookaheadSet objects), cores (the core index *)
(* table) and err (an exception was raised).                               *)

\* `rhs` in close: the productions of B, or <<>> with close_raises
close_rhs(rs, B) ==
    LET v == dict_get(rs, B.c)
        rhs == IF v.t = "Symbol" THEN dict_get(rs, v.c) ELSE v
    IN  IF is_terminal(rhs) THEN <<rhs>> ELSE rhs.ch

\* the lookups and Item constructions of close that raise
close_raises(rs, B) ==
    \/ ~dict_has(rs, B.c)
    \/ dict_get(rs, B.c).t = "Symbol" /\ ~dict_has(rs, dict_get(rs, B.c).c)
    \/ LET v == dict_get(rs, B.c)
            rhs == IF v.t = "Symbol" THEN dict_get(rs, v.c) ELSE v
        IN  \/ LeafRule(rhs) /\ ~is_terminal(rhs)
            \/ \E i \in 1..Len(rhs.ch) : ~valid_item(rhs.ch[i], 0)

\* the body of `for a in lookahead_copy`
close_candidate(st, candidate, firsts_lookahead) ==
    IF ~dict_has(st.items, candidate)
    THEN [st EXCEPT !.las = Append(@, firsts_lookahead),
                    !.items = Append(@, [k |-> candidate, v |-> Len(st.las) + 1]),
                    !.kg = TRUE]
    ELSE [st EXCEPT !.las[dict_get(st.items, candidate)] = @ \cup firsts_lookahead,
                    !.kg = ~(firsts_lookahead \subseteq st.las[dict_get(st.items, candidate)])]

close_add(rs, f, st, B, B_prod, afterB, a) ==
    close_candidate(st, Item(B.c, B_prod, 0), first_of_phrase(rs, f, Append(afterB, a)))

RECURSIVE close_pairs(_, _, _, _, _, _, _)
close_pairs(rs, f, st, B, afterB, pairs, n) ==
    IF n > Len(pairs) THEN st
    ELSE close_pairs(rs, f, close_add(rs, f, st, B, pairs[n][1], afterB, pairs[n][2]),
                     B, afterB, pairs, n + 1)

\* the (B_prod, a) pairs in the order the two inner loops visit them
close_product(rhs, lookahead_copy) ==
    concat([p \in 1..Len(rhs) |->
                [q \in 1..Len(lookahead_copy) |-> <<rhs[p], lookahead_copy[q]>>]])

\* the body of `for item, lookahead in copy.items()`
close_symbol(rs, f, order, st, entry, its, B) ==
    IF ~is_symbol(B) THEN st
    ELSE IF close_raises(rs, B) THEN [st EXCEPT !.err = TRUE]
    ELSE close_pairs(rs, f, st, B, SubSeq(its, entry.k.position + 2, Len(its)),
                     close_product(close_rhs(rs, B), in_hash_order(order, st.las[entry.v])), 1)

close_item(rs, f, order, st, entry) ==
    IF st.err \/ at_end(entry.k) THEN st
    ELSE close_symbol(rs, f, order, st, entry, item_items(entry.k.rule),
                      item_items(entry.k.rule)[entry.k.position + 1])

RECURSIVE close_pass(_, _, _, _, _, _)
close_pass(rs, f, order, st, copy, n) ==
    IF n > Len(copy) THEN st
    ELSE close_pass(rs, f, order, close_item(rs, f, order, st, copy[n]), copy, n + 1)

\* the `while keep_going` loop of close
RECURSIVE close_loop(_, _, _, _)
RECURSIVE close_again(_, _, _, _)
close_loop(rs, f, order, st) ==
    close_again(rs, f, order, close_pass(rs, f, order, [st EXCEPT !.kg = FALSE], st.items, 1))
close_again(rs, f, order, st1) ==
    IF st1.kg /\ ~st1.err THEN close_loop(rs, f, order, st1) ELSE st1

\* a register_item_set that gives every item set a new index
register_core_always_new(cores, core) ==
    [cores |-> Append(cores, core), index |-> Len(cores)]

\* Grammar.register_item_set: [cores, index]
register_core(cores, core) ==
    IF \E i \in 1..Len(cores) : cores[i] = core
    THEN [cores |-> cores, index |-> (CHOOSE i \in 1..Len(cores) : cores[i] = core) - 1]
    ELSE [cores |-> Append(cores, core), index |-> Len(cores)]

register_item_set(cores, items) == register_core(cores, kernel_core(items))

\* ItemSet.close on the entries `items`: [las, cores, err, items, core_index]
close_registered(h, st, reg) ==
    [las |-> st.las, cores |-> IF st.err THEN h.cores ELSE reg.cores, err |-> st.err,
     items |-> st.items, core_index |-> IF st.err THEN -1 ELSE reg.index]

close_closed(h, st) == close_registered(h, st, register_item_set(h.cores, st.items))

close(rs, f, order, h, items) ==
    close_closed(h, close_loop(rs, f, order,
                               [las |-> h.las, items |-> items, kg |-> TRUE, err |-> h.err]))

\* a LookaheadSet.merge that adds nothing
merge_lookahead_adds_nothing(st, r, o) == st

\* LookaheadSet.merge of the content o into object r
merge_lookahead(st, r, o) ==
    [st EXCEPT !.las[r] = @ \cup o, !.changed = @ \/ ~(o \subseteq st.las[r])]

\* ItemSet.merge(self, other) from entry n of self: [las, changed, err]
RECURSIVE merge(_, _, _, _)
merge(st, self_items, other_items, n) ==
    IF n > Len(self_items) \/ st.err THEN st
    ELSE IF ~dict_has(other_items, self_items[n].k) THEN [st EXCEPT !.err = TRUE]
    ELSE merge(merge_lookahead(st, self_items[n].v,
                               st.las[dict_get(other_items, self_items[n].k)]),
               self_items, other_items, n + 1)

\* the partition of gotos: the symbols X in the order of their first item
goto_symbols(items) ==
    LET next(i) == item_items(items[i].k.rule)[items[i].k.position + 1]
        idx == {i \in 1..Len(items) : ~at_end(items[i].k) /\ next(i) # EndOfText}
        firsts == {i \in idx : \A j \in idx : j < i => next(j) # next(i)}
        RECURSIVE pick(_)
        pick(i) == IF i > Len(items) THEN <<>>
                   ELSE IF i \in firsts THEN <<next(i)>> \o pick(i + 1) ELSE pick(i + 1)
    IN  pick(1)

\* x_item_set before it is closed: the items with X after the dot, advanced,
\* each mapped to the lookahead object of the item it comes from
advanced_items(items, X) ==
    LET sel == SelectSeq(items, LAMBDA e : ~at_end(e.k) /\
                            item_items(e.k.rule)[e.k.position + 1] = X)
    IN  [i \in 1..Len(sel) |->
            [k |-> Item(sel[i].k.lhs, sel[i].k.rule, sel[i].k.position + 1), v |-> sel[i].v]]

\* one partition of gotos, and what the caller does with its item set.
\* g = [las, cores, err, isets, res, by_index, changed, gl]; mode is
\*   "lr1"   : gotos(grammar) called by LR1_ItemSets (no memo)
\*   "lalr1" : gotos(grammar, memo=by_index) called by the item-set loop of LALR1
\*   "table" : gotos(grammar, memo=by_index) called by the action-table loop of LALR1
\* An item set that no caller keeps is dropped together with the lookahead
\* objects created for it; gl is goto_list with [X, ref, index] entries, ref 0
\* for an item set that is not kept.
goto_keep(g, X, c) ==
    [g EXCEPT !.las = c.las, !.cores = c.cores,
              !.isets = Append(@, [items |-> c.items, core_index |-> c.core_index]),
              !.res = @ \cup {Len(g.isets) + 1},
              !.gl = Append(@, [X |-> X, ref |-> Len(g.isets) + 1, index |-> c.core_index])]

\* an LR1_ItemSets that takes item sets of one core for equal
goto_lr1_by_core(g, X, c, same) ==
    IF {r \in g.res : kernel_core(g.isets[r].items) = kernel_core(c.items)} = {}
    THEN goto_keep(g, X, c)
    ELSE [g EXCEPT !.cores = c.cores,
                   !.gl = Append(@, [X |-> X,
                                     ref |-> CHOOSE r \in g.res :
                                                 kernel_core(g.isets[r].items) = kernel_core(c.items),
                                     index |-> c.core_index])]

\* `dest_item_set not in LR1_item_sets_result`; same holds the equal item sets
goto_lr1(g, X, c, same) ==
    IF same = {} THEN goto_keep(g, X, c)
    ELSE [g EXCEPT !.cores = c.cores,
                   !.gl = Append(@, [X |-> X, ref |-> CHOOSE r \in same : TRUE,
                                     index |-> c.core_index])]

\* `x_item_set = original_item_set` after original_item_set.merge(x_item_set) = m
goto_merged(g, X, c, m) ==
    [g EXCEPT !.las = SubSeq(m.las, 1, Len(g.las)), !.cores = c.cores,
              !.err = m.err, !.changed = @ \/ m.changed,
              !.gl = Append(@, [X |-> X, ref |-> g.by_index[c.core_index], index |-> c.core_index])]

\* a gotos that does not tell its caller of a new item set
goto_closed_silent(g, X, mode, c) ==
    IF c.err THEN [g EXCEPT !.err = TRUE]
    ELSE IF mode = "lr1"
    THEN goto_lr1(g, X, c, {r \in g.res : iset_value(c.las, g.isets[r].items)
                                          = iset_value(c.las, c.items)})
    ELSE IF c.core_index \in DOMAIN g.by_index
    THEN goto_merged(g, X, c, merge([las |-> c.las, changed |-> FALSE, err |-> FALSE],
                                    g.isets[g.by_index[c.core_index]].items, c.items, 1))
    ELSE IF mode = "lalr1"
    THEN [goto_keep(g, X, c) EXCEPT !.by_index = (c.core_index :> (Len(g.isets) + 1)) @@ @]
    ELSE [g EXCEPT !.cores = c.cores, !.changed = TRUE,
                   !.gl = Append(@, [X |-> X, ref |-> 0, index |-> c.core_index])]

goto_closed(g, X, mode, c) ==
    IF c.err THEN [g EXCEPT !.err = TRUE]
    ELSE IF mode = "lr1"
    THEN goto_lr1(g, X, c, {r \in g.res : iset_value(c.las, g.isets[r].items)
                                          = iset_value(c.las, c.items)})
    ELSE IF c.core_index \in DOMAIN g.by_index
    THEN goto_merged(g, X, c, merge([las |-> c.las, changed |-> FALSE, err |-> FALSE],
                                    g.isets[g.by_index[c.core_index]].items, c.items, 1))
    ELSE IF mode = "lalr1"
    THEN [goto_keep(g, X, c) EXCEPT !.changed = TRUE,
                                    !.by_index = (c.core_index :> (Len(g.isets) + 1)) @@ @]
    ELSE [g EXCEPT !.cores = c.cores, !.changed = TRUE,
                   !.gl = Append(@, [X |-> X, ref |-> 0, index |-> c.core_index])]

goto_one(rs, f, order, g, S_items, X, mode) ==
    goto_closed(g, X, mode,
                close(rs, f, order, [las |-> g.las, cores |-> g.cores, err |-> g.err],
                      advanced_items(S_items, X)))

\* ItemSet.gotos on item set S, every partition in turn
RECURSIVE gotos_from(_, _, _, _, _, _, _, _)
gotos_from(rs, f, order, g, S_items, Xs, n, mode) ==
    IF n > Len(Xs) \/ g.err THEN g
    ELSE gotos_from(rs, f, order, goto_one(rs, f, order, g, S_items, Xs[n], mode),
                    S_items, Xs, n + 1, mode)

gotos(rs, f, order, g, S, mode) ==
    gotos_from(rs, f, order, [g EXCEPT !.changed = FALSE, !.gl = <<>>],
               g.isets[S].items, goto_symbols(g.isets[S].items), 1, mode)

\* root_item_set = ItemSet({root_item: LookaheadSet({EndOfText()})}).close(self)
root_item_set(rs, f, order, l, cores) ==
    close(rs, f, order, [las |-> Append(l, {EndOfText}), cores |-> cores, err |-> FALSE],
          <<[k |-> Item(LANGUAGE, dict_get(rs, LANGUAGE).ch[1], 0), v |-> Len(l) + 1]>>)

\* the terminals that can be members of a lookahead set: grammar.end_of_text
\* and the terminal objects stored in the rule dictionary
lookahead_terminals(rs) ==
    {EndOfText} \cup {rs[n].v : n \in {m \in 1..Len(rs) : is_terminal(rs[m].v)}}

----------------------------------------------------------------------------
(* Ordering of rules and items; actions, conflicts, the action table *)

\* Rule._class_less
rank(r) ==
    CASE r.t = "Choice" -> 1
      [] r.t = "Seq" -> 2
      [] r.t = "Repeat1" -> 3
      [] r.t = "Symbol" -> 5
      [] r.t = "Fixed" -> 10
      [] r.t = "Pattern" -> 20
      [] r.t = "Empty" -> 100
      [] r.t = "EndOfText" -> 1000

\* LeafRule.__lt__ and ContainerRule.__lt__
RECURSIVE rule_less(_, _)
RECURSIVE sorted_rules(_)
ordered(r) == IF r.t = "Choice" THEN sorted_rules(r.ch) ELSE r.ch
rule_less(a, b) ==
    IF rank(a) < rank(b) THEN TRUE
    ELSE IF rank(b) < rank(a) THEN FALSE
    ELSE IF LeafRule(a)
    THEN IF a.t \in {"Empty", "EndOfText"} THEN FALSE ELSE str_less(a.c, b.c)
    ELSE LET ours == ordered(a)
             theirs == ordered(b)
             n == IF Len(ours) < Len(theirs) THEN Len(ours) ELSE Len(theirs)
             D == {i \in 1..n : rule_less(ours[i], theirs[i]) \/ rule_less(theirs[i], ours[i])}
         IN  IF D = {} THEN Len(ours) < Len(theirs)
             ELSE LET i == CHOOSE x \in D : \A y \in D : x <= y
                  IN  rule_less(ours[i], theirs[i])
sorted_rules(q) ==
    IF Len(q) = 0 THEN <<>>
    ELSE LET rest == sorted_rules(Tail(q))
             k == Cardinality({i \in 1..Len(rest) : ~rule_less(Head(q), rest[i])})
         IN  SubSeq(rest, 1, k) \o <<Head(q)>> \o SubSeq(rest, k + 1, Len(rest))

\* Item.__lt__
item_less(a, b) ==
    IF str_less(a.lhs, b.lhs) THEN TRUE
    ELSE IF str_less(b.lhs, a.lhs) THEN FALSE
    ELSE IF rule_less(a.rule, b.rule) THEN TRUE
    ELSE IF rule_less(b.rule, a.rule) THEN FALSE
    ELSE a.position < b.position

\* sorted(items)
RECURSIVE sorted_items(_)
sorted_items(T) ==
    IF T = {} THEN <<>>
    ELSE LET m == CHOOSE x \in T : \A y \in T : ~item_less(y, x)
         IN  <<m>> \o sorted_items(T \ {m})

no_item == Item(<<>>, Empty, 0)
Accept == [t |-> "Accept", index |-> 0, item_set |-> 0, item |-> no_item]
Shift(item_set, index) == [t |-> "Shift", index |-> index, item_set |-> item_set, item |-> no_item]
Reduce(item, index) == [t |-> "Reduce", index |-> index, item_set |-> 0, item |-> item]

\* Action.compare_value: Action.__eq__ compares these
compare_value(a) ==
    <<CASE a.t = "Accept" -> 0 [] a.t = "Shift" -> 1 [] a.t = "Reduce" -> 2, a.index>>

Conflict(item_set, terminal, prev_action, action) ==
    [item_set |-> item_set, terminal |-> terminal, prev_action |-> prev_action, action |-> action]

\* `action_key in action_table` for action_key = (item_set, terminal): a dict
\* finds an entry by the hash its key had when it was inserted; h is the
\* content_str of item_set (which ItemSet.__hash__ hashes) at the time of the call
action_index(tbl, item_set, h, terminal) ==
    {i \in 1..Len(tbl) : tbl[i].item_set = item_set /\ tbl[i].h = h /\ tbl[i].terminal = terminal}

\* an addAction that keeps the last action registered for a key
addAction_last_wins(st, item_set, h, terminal, action) ==
    IF action_index(st.action_table, item_set, h, terminal) = {}
    THEN [st EXCEPT !.action_table =
            Append(@, [item_set |-> item_set, h |-> h, terminal |-> terminal, action |-> action])]
    ELSE [action_table |->
             [i \in 1..Len(st.action_table) |->
                 IF i \in action_index(st.action_table, item_set, h, terminal)
                 THEN [st.action_table[i] EXCEPT !.action = action]
                 ELSE st.action_table[i]],
          conflicts |->
             Append(st.conflicts,
                    Conflict(item_set, terminal,
                             st.action_table[CHOOSE i \in action_index(st.action_table, item_set,
                                                                       h, terminal) : TRUE].action,
                             action))]

\* addAction; st = [action_table, conflicts]
addAction(st, item_set, h, terminal, action) ==
    LET found == action_index(st.action_table, item_set, h, terminal) IN
    IF found = {}
    THEN [st EXCEPT !.action_table =
            Append(@, [item_set |-> item_set, h |-> h, terminal |-> terminal, action |-> action])]
    ELSE LET prev == st.action_table[CHOOSE i \in found : TRUE].action IN
         IF compare_value(prev) # compare_value(action)
         THEN [st EXCEPT !.conflicts = Append(@, Conflict(item_set, terminal, prev, action))]
         ELSE st

\* a make_reduce that numbers the reductions from 1
make_reduce_from_one(ri, item) ==
    IF \E i \in 1..Len(ri) : ri[i] = item
    THEN [ri |-> ri, action |-> Reduce(item, CHOOSE i \in 1..Len(ri) : ri[i] = item)]
    ELSE [ri |-> Append(ri, item), action |-> Reduce(item, Len(ri) + 1)]

\* make_reduce; ri is reduced_items, the result is [ri, action]
make_reduce(ri, item) ==
    IF \E i \in 1..Len(ri) : ri[i] = item
    THEN [ri |-> ri, action |-> Reduce(item, (CHOOSE i \in 1..Len(ri) : ri[i] = item) - 1)]
    ELSE [ri |-> Append(ri, item), action |-> Reduce(item, Len(ri))]

\* "Register Reduce and Accept actions" for one item set: the addAction calls
\* in the order the loop makes them, and reduced_items after them
RECURSIVE reduce_calls(_, _, _, _, _, _)
reduce_calls(l, order, item_set, items, n, st) ==
    IF n > Len(items) THEN st
    ELSE LET item == items[n].k
             lookahead == l[items[n].v]
             call(terminal, action) ==
                 [item_set |-> item_set, terminal |-> terminal, action |-> action]
         IN  reduce_calls(l, order, item_set, items, n + 1,
               IF ~at_end(item) THEN st
               ELSE IF is_accepting(item) /\ EndOfText \in lookahead
               THEN [st EXCEPT !.calls = Append(@, call(EndOfText, Accept))]
               ELSE IF item.lhs # LANGUAGE /\ lookahead # {}
               THEN LET r == make_reduce(st.ri, item)
                        ts == in_hash_order(order, lookahead)
                    IN  [ri |-> r.ri,
                         calls |-> st.calls \o [i \in 1..Len(ts) |-> call(ts[i], r.action)]]
               ELSE st)

\* Shift actions that carry the index after the one of their item set
shift_calls_next_index(item_set, gl) ==
    LET sel == SelectSeq(gl, LAMBDA e : is_terminal(e.X))
    IN  [i \in 1..Len(sel) |->
            [item_set |-> item_set, terminal |-> sel[i].X,
             action |-> Shift(sel[i].ref, sel[i].index + 1)]]

\* "Register Shift actions": the addAction calls for a goto list
shift_calls(item_set, gl) ==
    LET sel == SelectSeq(gl, LAMBDA e : is_terminal(e.X))
    IN  [i \in 1..Len(sel) |->
            [item_set |-> item_set, terminal |-> sel[i].X, action |-> Shift(sel[i].ref, sel[i].index)]]

----------------------------------------------------------------------------
(* The grammars given to Grammar.Load *)

\* DRAGON_BOOK_EXAMPLE_4_42 of test.py: translation_unit -> C C, C -> c C | d
EX442 ==
    [start |-> s_translation_unit,
     rules |-> <<
        [k |-> s_translation_unit, v |-> J_SEQ(<<J_SYMBOL(s_C), J_SYMBOL(s_C)>>)],
        [k |-> s_C, v |-> J_CHOICE(<<J_SEQ(<<J_SYMBOL(s_c), J_SYMBOL(s_C)>>), J_SYMBOL(s_d)>>)],
        [k |-> s_c, v |-> J_TOKEN(J_STRING(s_c))],
        [k |-> s_d, v |-> J_TOKEN(J_STRING(s_d))] >>]

\* STAR_GRAMMAR of test.py: s -> ( at+ | BLANK )
STAR_GRAMMAR ==
    [start |-> s_s,
     rules |-> <<
        [k |-> s_s, v |-> J_SEQ(<<J_CHOICE(<<J_REPEAT1(J_SYMBOL(s_at)), J_BLANK>>)>>)],
        [k |-> s_at, v |-> J_TOKEN(J_STRING(s_atsign))] >>]

\* s -> at+
PLUS_GRAMMAR ==
    [start |-> s_s,
     rules |-> <<
        [k |-> s_s, v |-> J_REPEAT1(J_SYMBOL(s_at))],
        [k |-> s_at, v |-> J_TOKEN(J_STRING(s_atsign))] >>]

\* postfix expressions: S -> S S x | y
POSTFIX_GRAMMAR ==
    [start |-> s_S,
     rules |-> <<
        [k |-> s_S, v |-> J_CHOICE(<<J_SEQ(<<J_SYMBOL(s_S), J_SYMBOL(s_S), J_SYMBOL(s_x)>>),
                                    J_SYMBOL(s_y)>>)],
        [k |-> s_x, v |-> J_TOKEN(J_STRING(s_x))],
        [k |-> s_y, v |-> J_TOKEN(J_STRING(s_y))] >>]

\* A -> x x | A S, S -> BLANK | A S
LIST_GRAMMAR ==
    [start |-> s_S,
     rules |-> <<
        [k |-> s_A, v |-> J_CHOICE(<<J_SEQ(<<J_SYMBOL(s_x), J_SYMBOL(s_x)>>),
                                    J_SEQ(<<J_SYMBOL(s_A), J_SYMBOL(s_S)>>)>>)],
        [k |-> s_S, v |-> J_CHOICE(<<J_BLANK, J_SEQ(<<J_SYMBOL(s_A), J_SYMBOL(s_S)>>)>>)],
        [k |-> s_x, v |-> J_TOKEN(J_STRING(s_x))] >>]

\* s -> at BLANK
BLANK_GRAMMAR ==
    [start |-> s_s,
     rules |-> <<
        [k |-> s_s, v |-> J_SEQ(<<J_SYMBOL(s_at), J_BLANK>>)],
        [k |-> s_at, v |-> J_TOKEN(J_STRING(s_atsign))] >>]

\* s -> b 'x', b -> 'y' | BLANK: the terminals are STRING nodes inside the
\* rule bodies, no rule of their own
INLINE_GRAMMAR ==
    [start |-> s_s,
     rules |-> <<
        [k |-> s_s, v |-> J_SEQ(<<J_SYMBOL(s_b), J_STRING(s_x)>>)],
        [k |-> s_b, v |-> J_CHOICE(<<J_STRING(s_y), J_BLANK>>)] >>]

\* s -> ('x' | 'y'+) | 'z'+ : a choice inside a choice, before a repetition
NESTED_CHOICE_GRAMMAR ==
    [start |-> s_s,
     rules |-> <<
        [k |-> s_s, v |-> J_CHOICE(<<J_CHOICE(<<J_STRING(s_x), J_REPEAT1(J_STRING(s_y))>>),
                                     J_REPEAT1(J_STRING(s_z))>>)] >>]

\* s -> 'x' 'y' | 'z'+ : a flat sequence beside a repetition
FLAT_SEQ_GRAMMAR ==
    [start |-> s_s,
     rules |-> <<
        [k |-> s_s, v |-> J_CHOICE(<<J_SEQ(<<J_STRING(s_x), J_STRING(s_y)>>),
                                     J_REPEAT1(J_STRING(s_z))>>)] >>]

\* DRAGON_BOOK_EXAMPLE_4_17 of test.py
DRAGON_BOOK_EXAMPLE_4_17 ==
    [start |-> s_E,
     rules |-> <<
        [k |-> s_E, v |-> J_SEQ(<<J_SYMBOL(s_T), J_SYMBOL(s_Eprime)>>)],
        [k |-> s_Eprime, v |-> J_CHOICE(<<
                J_SEQ(<<J_SYMBOL(s_plus), J_SYMBOL(s_T), J_SYMBOL(s_Eprime)>>),
                J_BLANK>>)],
        [k |-> s_T, v |-> J_SEQ(<<J_SYMBOL(s_F), J_SYMBOL(s_Tprime)>>)],
        [k |-> s_Tprime, v |-> J_CHOICE(<<
                J_SEQ(<<J_SYMBOL(s_times), J_SYMBOL(s_F), J_SYMBOL(s_Tprime)>>),
                J_BLANK>>)],
        [k |-> s_F, v |-> J_CHOICE(<<
                J_SEQ(<<J_SYMBOL(s_paren_left), J_SYMBOL(s_E), J_SYMBOL(s_paren_right)>>),
                J_SYMBOL(s_id)>>)],
        [k |-> s_id, v |-> J_TOKEN(J_STRING(s_id))],
        [k |-> s_plus, v |-> J_TOKEN(J_STRING(s_plus_sign))],
        [k |-> s_times, v |-> J_TOKEN(J_STRING(s_star_sign))],
        [k |-> s_paren_left, v |-> J_TOKEN(J_STRING(s_lparen))],
        [k |-> s_paren_right, v |-> J_TOKEN(J_STRING(s_rparen))] >>]

\* SIMPLE_WGSL of test.py
SIMPLE_WGSL ==
    [start |-> s_translation_unit,
     rules |-> <<
        [k |-> s_translation_unit, v |-> J_SEQ(<<J_CHOICE(<<J_REPEAT1(J_SYMBOL(s_global_decl)), J_BLANK>>)>>)],
        [k |-> s_type_alias_decl, v |-> J_SEQ(<<
                J_SYMBOL(s_type),
                J_SYMBOL(s_ident),
                J_SYMBOL(s_equal),
                J_SYMBOL(s_ident)>>)],
        [k |-> s_global_decl, v |-> J_CHOICE(<<
                J_SYMBOL(s_semicolon),
                J_SEQ(<<J_SYMBOL(s_type_alias_decl), J_SYMBOL(s_semicolon)>>),
                J_SYMBOL(s_function_decl)>>)],
        [k |-> s_function_decl, v |-> J_SEQ(<<
                J_CHOICE(<<J_REPEAT1(J_SYMBOL(s_at)), J_BLANK>>),
                J_SYMBOL(s_function_header),
                J_SYMBOL(s_brace_left),
                J_SYMBOL(s_brace_right)>>)],
        [k |-> s_function_header, v |-> J_SEQ(<<
                J_SYMBOL(s_fn),
                J_SYMBOL(s_ident),
                J_SYMBOL(s_paren_left),
                J_SYMBOL(s_paren_right)>>)],
        [k |-> s_ident, v |-> J_TOKEN(J_PATTERN(s_ident_pattern))],
        [k |-> s_at, v |-> J_TOKEN(J_STRING(s_atsign))],
        [k |-> s_blankspace, v |-> J_TOKEN(J_PATTERN(s_blank_pattern))],
        [k |-> s_fn, v |-> J_TOKEN(J_STRING(s_fn))],
        [k |-> s_type, v |-> J_TOKEN(J_STRING(s_type))],
        [k |-> s_equal, v |-> J_TOKEN(J_STRING(s_equal_sign))],
        [k |-> s_semicolon, v |-> J_TOKEN(J_STRING(s_semicolon_sign))],
        [k |-> s_brace_left, v |-> J_TOKEN(J_STRING(s_lbrace))],
        [k |-> s_brace_right, v |-> J_TOKEN(J_STRING(s_rbrace))],
        [k |-> s_paren_left, v |-> J_TOKEN(J_STRING(s_lparen))],
        [k |-> s_paren_right, v |-> J_TOKEN(J_STRING(s_rparen))] >>]

Documents ==
    {EX442, STAR_GRAMMAR, PLUS_GRAMMAR, POSTFIX_GRAMMAR, LIST_GRAMMAR, BLANK_GRAMMAR}

\* the documents whose caller stops after Grammar.Load and reads the First and
\* Follow sets (DragonBook, SimpleWgsl_First, SimpleWgsl_Follow of test.py)
LoadedDocuments == {DRAGON_BOOK_EXAMPLE_4_17, SIMPLE_WGSL, INLINE_GRAMMAR}

\* the iteration orders of sets of terminals a process can have
iteration_orders(T) ==
    {q \in [1..Cardinality(T) -> T] : \A i, j \in 1..Cardinality(T) : q[i] = q[j] => i = j}

vars == <<pc, json_rules, start_symbol, rules, result, snap, ci, keep_going, first, follow,
          hash_order, max_item_sets, las, isets, item_set_core_index,
          LR1_item_sets_result, dirty_set, work_list, lr1_item_sets,
          by_index, LALR1_item_sets_result, item_sets,
          action_table, conflicts, reduced_items, pending, reductions,
          run_no, first_run, lookaheads, returned, visited,
          options, lines, line_num, state, current_def, self_result>>

inputVars == <<json_rules, start_symbol, hash_order, max_item_sets>>
canonVars == <<result, snap>>
heapVars == <<las, isets, item_set_core_index>>
lr1Vars == <<LR1_item_sets_result, dirty_set, lr1_item_sets>>
lalr1Vars == <<by_index, LALR1_item_sets_result, item_sets>>
tableVars == <<action_table, conflicts, reduced_items, pending, reductions>>
runVars == <<run_no, first_run>>
callerVars == <<lookaheads, returned>>
orderVars == <<visited>>
rewriteVars == <<options, lines, line_num, state, current_def, self_result>>
grammarVars == <<pc, inputVars, rules, canonVars, ci, keep_going, first, follow, heapVars,
                 lr1Vars, work_list, lalr1Vars, tableVars, runVars>>

\* the caller has made no call yet; `even` tells whether the number of calls
\* made so far is even
no_call == [op |-> "none", even |-> TRUE]

\* rewrite.py, CurrentDef()
CurrentDef == [name |-> "", text |-> <<>>, alternatives |-> <<>>]

\* no Processor of rewrite.py is at work
no_processor ==
    /\ options = [sot_ebnf |-> TRUE, sot_bs |-> FALSE]
    /\ lines = <<>> /\ line_num = 0
    /\ state = "init"
    /\ current_def = CurrentDef
    /\ self_result = <<>>

\* the state after g = Grammar(json_text, start_symbol)
Constructed(doc) ==
    /\ pc = "canonicalize"
    /\ json_rules = doc.rules
    /\ start_symbol = doc.start
    /\ rules = Grammar_init(doc.rules, doc.start)
    /\ result = <<>>
    /\ snap = <<>>
    /\ ci = 0
    /\ keep_going = FALSE
    /\ first = <<>>
    /\ follow = <<>>
    /\ las = <<>>
    /\ isets = <<>>
    /\ item_set_core_index = <<>>
    /\ LR1_item_sets_result = {}
    /\ dirty_set = {}
    /\ work_list = <<>>
    /\ lr1_item_sets = <<>>
    /\ by_index = <<>>
    /\ LALR1_item_sets_result = {}
    /\ item_sets = <<>>
    /\ action_table = <<>>
    /\ conflicts = <<>>
    /\ reduced_items = <<>>
    /\ pending = <<>>
    /\ reductions = <<>>
    /\ lookaheads = <<>>
    /\ returned = no_call
    /\ visited = {}
    /\ no_processor

\* what a run leaves to its caller: the item-set lists as rendered by
\* ItemSet.__str__ (core index, items and lookaheads), the action table as
\* the dict it is, the reductions and the conflicts as the lists they are
rendered(r) ==
    [core_index |-> isets[r].core_index, items |-> iset_value(las, isets[r].items)]
rendered_action(a) == [t |-> a.t, index |-> a.index, item |-> a.item]
no_outcome ==
    [raised |-> FALSE, lr1 |-> <<>>, lalr1 |-> <<>>, actions |-> {}, reductions |-> <<>>,
     conflicts |-> <<>>]
outcome ==
    IF pc = "raised"
    THEN [no_outcome EXCEPT !.raised = TRUE,
                            !.lr1 = [i \in 1..Len(lr1_item_sets) |-> rendered(lr1_item_sets[i])]]
    ELSE [raised |-> FALSE,
          lr1 |-> [i \in 1..Len(lr1_item_sets) |-> rendered(lr1_item_sets[i])],
          lalr1 |-> [i \in 1..Len(item_sets) |-> rendered(item_sets[i])],
          actions |-> {[index |-> isets[action_table[i].item_set].core_index,
                        terminal |-> action_table[i].terminal,
                        action |-> rendered_action(action_table[i].action)] :
                            i \in 1..Len(action_table)},
          reductions |-> reductions,
          conflicts |-> [i \in 1..Len(conflicts) |->
                            [index |-> isets[conflicts[i].item_set].core_index,
                             terminal |-> conflicts[i].terminal,
                             prev_action |-> rendered_action(conflicts[i].prev_action),
                             action |-> rendered_action(conflicts[i].action)]]]

Init ==
    \E doc \in Documents \cup LoadedDocuments :
        /\ Constructed(doc)
        /\ hash_order \in IF doc \in LoadedDocuments THEN {<<>>}
                          ELSE iteration_orders(lookahead_terminals(Grammar_init(doc.rules,
                                                                                 doc.start)))
        /\ max_item_sets \in {-1}
        /\ run_no = 1
        /\ first_run = no_outcome

\* the same JSON text and start symbol are loaded and analysed again, in a
\* process with an iteration order of its own
RunAgain ==
    /\ pc \in {"done", "raised"} /\ run_no = 1
    /\ first_run' = outcome
    /\ run_no' = 2
    /\ hash_order' \in iteration_orders(lookahead_terminals(Grammar_init(json_rules, start_symbol)))
    /\ pc' = "canonicalize"
    /\ rules' = Grammar_init(json_rules, start_symbol)
    /\ result' = <<>> /\ snap' = <<>> /\ ci' = 0 /\ keep_going' = FALSE
    /\ first' = <<>> /\ follow' = <<>>
    /\ las' = <<>> /\ isets' = <<>> /\ item_set_core_index' = <<>>
    /\ LR1_item_sets_result' = {} /\ dirty_set' = {} /\ work_list' = <<>>
    /\ lr1_item_sets' = <<>>
    /\ by_index' = <<>> /\ LALR1_item_sets_result' = {} /\ item_sets' = <<>>
    /\ action_table' = <<>> /\ conflicts' = <<>> /\ reduced_items' = <<>>
    /\ pending' = <<>> /\ reductions' = <<>>
    /\ UNCHANGED <<json_rules, start_symbol, max_item_sets, callerVars, orderVars, rewriteVars>>

----------------------------------------------------------------------------
(* Grammar.Load: canonicalize, compute_first, compute_follow *)

Canonicalize_Wrap ==
    /\ pc = "canonicalize"
    /\ result' = canonicalize_wrap(rules)
    /\ keep_going' = TRUE
    /\ pc' = "canon_while"
    /\ UNCHANGED <<inputVars, rules, snap, ci, first, follow, heapVars, lr1Vars, work_list, lalr1Vars,
                   tableVars, runVars, callerVars, orderVars, rewriteVars>>

Canonicalize_Pass ==
    /\ pc = "canon_while" /\ keep_going
    /\ keep_going' = FALSE
    /\ snap' = result
    /\ ci' = 1
    /\ pc' = "canon_for"
    /\ UNCHANGED <<inputVars, rules, result, first, follow, heapVars, lr1Vars, work_list, lalr1Vars,
                   tableVars, runVars, callerVars, orderVars, rewriteVars>>

Canonicalize_Rule ==
    /\ pc = "canon_for" /\ ci <= Len(snap)
    /\ LET r == canon_rule(result, snap[ci].k, snap[ci].v) IN
        /\ result' = r.res
        /\ keep_going' = (keep_going \/ r.made)
    /\ ci' = ci + 1
    /\ UNCHANGED <<pc, inputVars, rules, snap, first, follow, heapVars, lr1Vars, work_list, lalr1Vars,
                   tableVars, runVars, callerVars, orderVars, rewriteVars>>

Canonicalize_PassEnd ==
    /\ pc = "canon_for" /\ ci > Len(snap)
    /\ pc' = "canon_while"
    /\ UNCHANGED <<inputVars, rules, result, snap, ci, keep_going, first, follow, heapVars,
                   lr1Vars, work_list, lalr1Vars,
                   tableVars, runVars, callerVars, orderVars, rewriteVars>>

Canonicalize_Return ==
    /\ pc = "canon_while" /\ ~keep_going
    /\ rules' = result
    /\ pc' = "compute_first"
    /\ UNCHANGED <<inputVars, result, snap, ci, keep_going, first, follow, heapVars, lr1Vars,
                   work_list, lalr1Vars,
                   tableVars, runVars, callerVars, orderVars, rewriteVars>>

First_Init ==
    /\ pc = "compute_first"
    /\ first' = first_initial(rules)
    /\ keep_going' = TRUE
    /\ pc' = "first_while"
    /\ UNCHANGED <<inputVars, rules, canonVars, ci, follow, heapVars, lr1Vars, work_list, lalr1Vars,
                   tableVars, runVars, callerVars, orderVars, rewriteVars>>

First_Pass ==
    /\ pc = "first_while" /\ keep_going
    /\ keep_going' = FALSE
    /\ ci' = 1
    /\ pc' = "first_for"
    /\ UNCHANGED <<inputVars, rules, canonVars, first, follow, heapVars, lr1Vars, work_list, lalr1Vars,
                   tableVars, runVars, callerVars, orderVars, rewriteVars>>

First_Rule ==
    /\ pc = "first_for" /\ ci <= Len(names_of_non_terminals(rules))
    /\ LET rule == RuleObj(names_of_non_terminals(rules)[ci])
            new_items == dynamic_first(rules, first, rule, 0) \ first[rule]
        IN  IF new_items # {}
            THEN first' = first_union(first, rule, new_items) /\ keep_going' = TRUE
            ELSE UNCHANGED <<first, keep_going,
                   tableVars, runVars, callerVars, orderVars, rewriteVars>>
    /\ ci' = ci + 1
    /\ UNCHANGED <<pc, inputVars, rules, canonVars, follow, heapVars, lr1Vars, work_list, lalr1Vars,
                   tableVars, runVars, callerVars, orderVars, rewriteVars>>

First_PassEnd ==
    /\ pc = "first_for" /\ ci > Len(names_of_non_terminals(rules))
    /\ pc' = "first_while"
    /\ UNCHANGED <<inputVars, rules, canonVars, ci, keep_going, first, follow, heapVars, lr1Vars,
                   work_list, lalr1Vars,
                   tableVars, runVars, callerVars, orderVars, rewriteVars>>

First_Return ==
    /\ pc = "first_while" /\ ~keep_going
    /\ pc' = "compute_follow"
    /\ UNCHANGED <<inputVars, rules, canonVars, ci, keep_going, first, follow, heapVars, lr1Vars,
                   work_list, lalr1Vars,
                   tableVars, runVars, callerVars, orderVars, rewriteVars>>

Follow_Init ==
    /\ pc = "compute_follow"
    /\ follow' = (obj_of_rule(rules, start_symbol) :> {EndOfText})
    /\ keep_going' = TRUE
    /\ pc' = "follow_while"
    /\ UNCHANGED <<inputVars, rules, canonVars, ci, first, heapVars, lr1Vars, work_list, lalr1Vars,
                   tableVars, runVars, callerVars, orderVars, rewriteVars>>

Follow_Pass ==
    /\ pc = "follow_while" /\ keep_going
    /\ keep_going' = FALSE
    /\ ci' = 1
    /\ pc' = "follow_for"
    /\ UNCHANGED <<inputVars, rules, canonVars, first, follow, heapVars, lr1Vars, work_list, lalr1Vars,
                   tableVars, runVars, callerVars, orderVars, rewriteVars>>

Follow_Rule ==
    /\ pc = "follow_for" /\ ci <= Len(rules)
    /\ LET st == follow_rule(rules, first, rules[ci].k, 1, [fo |-> follow, kg |-> keep_going]) IN
        /\ follow' = st.fo
        /\ keep_going' = st.kg
    /\ ci' = ci + 1
    /\ UNCHANGED <<pc, inputVars, rules, canonVars, first, heapVars, lr1Vars, work_list, lalr1Vars,
                   tableVars, runVars, callerVars, orderVars, rewriteVars>>

Follow_PassEnd ==
    /\ pc = "follow_for" /\ ci > Len(rules)
    /\ pc' = "follow_while"
    /\ UNCHANGED <<inputVars, rules, canonVars, ci, keep_going, first, follow, heapVars, lr1Vars,
                   work_list, lalr1Vars,
                   tableVars, runVars, callerVars, orderVars, rewriteVars>>

Follow_Return ==
    /\ pc = "follow_while" /\ ~keep_going
    /\ pc' = IF [start |-> start_symbol, rules |-> json_rules] \in LoadedDocuments
             THEN "loaded" ELSE "LR1_ItemSets"
    /\ UNCHANGED <<inputVars, rules, canonVars, ci, keep_going, first, follow, heapVars, lr1Vars,
                   work_list, lalr1Vars,
                   tableVars, runVars, callerVars, orderVars, rewriteVars>>

----------------------------------------------------------------------------
(* Grammar.LR1_ItemSets *)

heap == [las |-> las, cores |-> item_set_core_index, err |-> FALSE, isets |-> isets,
         res |-> {}, by_index |-> <<>>, changed |-> FALSE, gl |-> <<>>]

LR1_Begin ==
    /\ pc = "LR1_ItemSets"
    /\ LET root == root_item_set(rules, first, hash_order, las, item_set_core_index) IN
        /\ las' = root.las
        /\ item_set_core_index' = root.cores
        /\ isets' = Append(isets, [items |-> root.items, core_index |-> root.core_index])
        /\ LR1_item_sets_result' = {Len(isets) + 1}
        /\ dirty_set' = {Len(isets) + 1}
        /\ pc' = IF root.err THEN "raised" ELSE "lr1_while"
    /\ UNCHANGED <<inputVars, rules, canonVars, ci, keep_going, first, follow, work_list,
                   lr1_item_sets, lalr1Vars,
                   tableVars, runVars, callerVars, orderVars, rewriteVars>>

LR1_Round ==
    /\ pc = "lr1_while" /\ dirty_set # {}
    /\ work_list' = sorted_by(dirty_set, [r \in dirty_set |-> content_str(las, isets[r].items)])
    /\ dirty_set' = {}
    /\ ci' = 1
    /\ pc' = "lr1_for"
    /\ UNCHANGED <<inputVars, rules, canonVars, keep_going, first, follow, heapVars,
                   LR1_item_sets_result, lr1_item_sets, lalr1Vars,
                   tableVars, runVars, callerVars, orderVars, rewriteVars>>

LR1_Visit ==
    /\ pc = "lr1_for" /\ ci <= Len(work_list)
    /\ LET g == gotos(rules, first, hash_order, [heap EXCEPT !.res = LR1_item_sets_result],
                      work_list[ci], "lr1")
        IN  /\ las' = g.las
            /\ isets' = g.isets
            /\ item_set_core_index' = g.cores
            /\ LR1_item_sets_result' = g.res
            /\ dirty_set' = dirty_set \cup (g.res \ LR1_item_sets_result)
            /\ pc' = IF g.err THEN "raised" ELSE pc
    /\ ci' = ci + 1
    /\ UNCHANGED <<inputVars, rules, canonVars, keep_going, first, follow, work_list,
                   lr1_item_sets, lalr1Vars,
                   tableVars, runVars, callerVars, orderVars, rewriteVars>>

LR1_RoundEnd ==
    /\ pc = "lr1_for" /\ ci > Len(work_list)
    /\ pc' = "lr1_while"
    /\ UNCHANGED <<inputVars, rules, canonVars, ci, keep_going, first, follow, heapVars, lr1Vars,
                   work_list, lalr1Vars,
                   tableVars, runVars, callerVars, orderVars, rewriteVars>>

LR1_Return ==
    /\ pc = "lr1_while" /\ dirty_set = {}
    /\ lr1_item_sets' = sorted_by(LR1_item_sets_result,
                            [r \in LR1_item_sets_result |-> pretty_key(las, isets[r])])
    /\ pc' = "LALR1"
    /\ UNCHANGED <<inputVars, rules, canonVars, ci, keep_going, first, follow, heapVars,
                   LR1_item_sets_result, dirty_set, work_list, lalr1Vars,
                   tableVars, runVars, callerVars, orderVars, rewriteVars>>

----------------------------------------------------------------------------
(* Grammar.LALR1, part 1: the item sets.  LALR1 runs on a Grammar of its own *)
(* (Grammar.Load of the same text), whose core index table starts empty.     *)

LALR1_Begin ==
    /\ pc = "LALR1"
    /\ LET root == root_item_set(rules, first, hash_order, las, <<>>) IN
        /\ las' = root.las
        /\ item_set_core_index' = root.cores
        /\ isets' = Append(isets, [items |-> root.items, core_index |-> root.core_index])
        /\ by_index' = (root.core_index :> (Len(isets) + 1))
        /\ LALR1_item_sets_result' = {Len(isets) + 1}
        /\ pc' = IF root.err THEN "raised" ELSE "lalr1_while"
    /\ keep_going' = TRUE
    /\ UNCHANGED <<inputVars, rules, canonVars, ci, first, follow, lr1Vars, work_list, item_sets,
                   tableVars, runVars, callerVars, orderVars, rewriteVars>>

LALR1_Round ==
    /\ pc = "lalr1_while" /\ keep_going
    /\ ~(max_item_sets >= 0 /\ Cardinality(DOMAIN by_index) > max_item_sets)
    /\ keep_going' = FALSE
    /\ work_list' = reversed(sorted_by(LALR1_item_sets_result,
                        [r \in LALR1_item_sets_result |-> pretty_key(las, isets[r])]))
    /\ ci' = 1
    /\ pc' = "lalr1_for"
    /\ UNCHANGED <<inputVars, rules, canonVars, first, follow, heapVars, lr1Vars, lalr1Vars,
                   tableVars, runVars, callerVars, orderVars, rewriteVars>>

LALR1_Visit ==
    /\ pc = "lalr1_for" /\ ci <= Len(work_list)
    /\ LET g == gotos(rules, first, hash_order,
                      [heap EXCEPT !.res = LALR1_item_sets_result, !.by_index = by_index],
                      work_list[ci], "lalr1")
        IN  /\ las' = g.las
            /\ isets' = g.isets
            /\ item_set_core_index' = g.cores
            /\ LALR1_item_sets_result' = g.res
            /\ by_index' = g.by_index
            /\ keep_going' = (keep_going \/ g.changed)
            /\ pc' = IF g.err THEN "raised" ELSE pc
    /\ ci' = ci + 1
    /\ UNCHANGED <<inputVars, rules, canonVars, first, follow, lr1Vars, work_list, item_sets,
                   tableVars, runVars, callerVars, orderVars, rewriteVars>>

LALR1_RoundEnd ==
    /\ pc = "lalr1_for" /\ ci > Len(work_list)
    /\ pc' = "lalr1_while"
    /\ UNCHANGED <<inputVars, rules, canonVars, ci, keep_going, first, follow, heapVars, lr1Vars,
                   work_list, lalr1Vars,
                   tableVars, runVars, callerVars, orderVars, rewriteVars>>

LALR1_Sort ==
    /\ pc = "lalr1_while"
    /\ ~keep_going \/ (max_item_sets >= 0 /\ Cardinality(DOMAIN by_index) > max_item_sets)
    /\ item_sets' = sorted_by(LALR1_item_sets_result,
                        [r \in LALR1_item_sets_result |-> pretty_key(las, isets[r])])
    /\ ci' = 1
    /\ pc' = "table_for"
    /\ UNCHANGED <<inputVars, rules, canonVars, keep_going, first, follow, heapVars, lr1Vars,
                   work_list, by_index, LALR1_item_sets_result,
                   tableVars, runVars, callerVars, orderVars, rewriteVars>>

----------------------------------------------------------------------------
(* Grammar.LALR1, part 2: the action table and the conflicts *)

Table_Reduces ==
    /\ pc = "table_for" /\ ci <= Len(item_sets)
    /\ LET st == reduce_calls(las, hash_order, item_sets[ci], isets[item_sets[ci]].items, 1,
                              [ri |-> reduced_items, calls |-> <<>>])
        IN  /\ reduced_items' = st.ri
            /\ pending' = st.calls
    /\ pc' = "table_reduce"
    /\ UNCHANGED <<inputVars, rules, canonVars, ci, keep_going, first, follow, heapVars, lr1Vars,
                   work_list, lalr1Vars, action_table, conflicts, reductions, runVars, callerVars, orderVars, rewriteVars>>

AddAction ==
    /\ pc \in {"table_reduce", "table_shift"} /\ pending # <<>>
    /\ LET c == Head(pending) IN
        IF ~is_terminal(c.terminal)
        THEN pc' = "raised" /\ UNCHANGED <<action_table, conflicts>>
        ELSE LET st == addAction([action_table |-> action_table, conflicts |-> conflicts],
                                 c.item_set, content_str(las, isets[c.item_set].items),
                                 c.terminal, c.action)
             IN  /\ action_table' = st.action_table
                 /\ conflicts' = st.conflicts
                 /\ pc' = pc
    /\ pending' = Tail(pending)
    /\ UNCHANGED <<inputVars, rules, canonVars, ci, keep_going, first, follow, heapVars, lr1Vars,
                   work_list, lalr1Vars, reduced_items, reductions, runVars, callerVars, orderVars, rewriteVars>>

Table_Gotos ==
    /\ pc = "table_reduce" /\ pending = <<>>
    /\ LET g == gotos(rules, first, hash_order, [heap EXCEPT !.by_index = by_index],
                      item_sets[ci], "table")
        IN  /\ las' = g.las
            /\ item_set_core_index' = g.cores
            /\ pending' = shift_calls(item_sets[ci], g.gl)
            /\ pc' = IF g.err THEN "raised" ELSE "table_shift"
    /\ UNCHANGED <<inputVars, rules, canonVars, ci, keep_going, first, follow, isets, lr1Vars,
                   work_list, lalr1Vars, action_table, conflicts, reduced_items, reductions, runVars, callerVars, orderVars, rewriteVars>>

Table_Next ==
    /\ pc = "table_shift" /\ pending = <<>>
    /\ ci' = ci + 1
    /\ pc' = "table_for"
    /\ UNCHANGED <<inputVars, rules, canonVars, keep_going, first, follow, heapVars, lr1Vars,
                   work_list, lalr1Vars, tableVars, runVars, callerVars, orderVars, rewriteVars>>

LALR1_Return ==
    /\ pc = "table_for" /\ ci > Len(item_sets)
    /\ reductions' = sorted_items(SeqToSet(reduced_items))
    /\ pc' = "done"
    /\ UNCHANGED <<inputVars, rules, canonVars, ci, keep_going, first, follow, heapVars, lr1Vars,
                   work_list, lalr1Vars, action_table, conflicts, reduced_items, pending,
                   runVars, callerVars, orderVars, rewriteVars>>

Next ==
    \/ Canonicalize_Wrap \/ Canonicalize_Pass \/ Canonicalize_Rule
    \/ Canonicalize_PassEnd \/ Canonicalize_Return
    \/ First_Init \/ First_Pass \/ First_Rule \/ First_PassEnd \/ First_Return
    \/ Follow_Init \/ Follow_Pass \/ Follow_Rule \/ Follow_PassEnd \/ Follow_Return
    \/ LR1_Begin \/ LR1_Round \/ LR1_Visit \/ LR1_RoundEnd \/ LR1_Return
    \/ LALR1_Begin \/ LALR1_Round \/ LALR1_Visit \/ LALR1_RoundEnd \/ LALR1_Sort
    \/ Table_Reduces \/ AddAction \/ Table_Gotos \/ Table_Next \/ LALR1_Return
    \/ RunAgain

Spec == Init /\ [][Next]_vars

\* the statements of the item-set loop of LALR1
loop_statements == {"LALR1", "lalr1_while", "lalr1_for"}

\* the interpreter at a statement of the item-set loop runs it: every such
\* statement can be run, and running it moves to another statement or to the
\* next entry of work_list
LALR1_LoopStep ==
    /\ pc \in loop_statements
    /\ pc' \in loop_statements \cup {"table_for", "raised"}
    /\ ci' \in {ci, ci + 1, 1}

\* the interpreter does not stop inside the item-set loop
SpecFair == Init /\ [][Next]_vars /\ WF_<<pc, ci>>(LALR1_LoopStep)

\* the largest item-set limit given to LALR1
MaxItemSets == 2

\* the callers that give LALR1 a limit: LALR1(max_item_sets=N)
InitLimited ==
    \E doc \in Documents \cup LoadedDocuments :
        /\ Constructed(doc)
        /\ hash_order \in IF doc \in LoadedDocuments THEN {<<>>}
                          ELSE iteration_orders(lookahead_terminals(Grammar_init(doc.rules,
                                                                                 doc.start)))
        /\ max_item_sets \in 0..MaxItemSets
        /\ run_no = 1
        /\ first_run = no_outcome

SpecLimited == InitLimited /\ [][Next]_vars

\* the callers of LALR1, with a limit and without one
InitAnyLimit ==
    \E doc \in Documents \cup LoadedDocuments :
        /\ Constructed(doc)
        /\ hash_order \in IF doc \in LoadedDocuments THEN {<<>>}
                          ELSE iteration_orders(lookahead_terminals(Grammar_init(doc.rules,
                                                                                 doc.start)))
        /\ max_item_sets \in -1..MaxItemSets
        /\ run_no = 1
        /\ first_run = no_outcome

SpecAnyLimit == InitAnyLimit /\ [][Next]_vars

----------------------------------------------------------------------------
(* Grammar.Load up to the end of canonicalize_grammar, for every document and
   for documents with a choice inside a choice and with
   a flat sequence beside a repetition *)

CanonDocuments ==
    Documents \cup LoadedDocuments \cup {NESTED_CHOICE_GRAMMAR, FLAT_SEQ_GRAMMAR}

InitCanon ==
    \E doc \in CanonDocuments :
        /\ Constructed(doc)
        /\ hash_order = <<>>
        /\ max_item_sets = -1
        /\ run_no = 1
        /\ first_run = no_outcome

NextCanon ==
    \/ Canonicalize_Wrap \/ Canonicalize_Pass \/ Canonicalize_Rule
    \/ Canonicalize_PassEnd \/ Canonicalize_Return

SpecCanon == InitCanon /\ [][NextCanon]_vars

----------------------------------------------------------------------------
(* A caller that builds Item, Repeat1 and LookaheadSet objects itself
   (Item_Basics, Lookahead_is_a_set, Lookahead_merge of test.py) *)

MaxPosition == 3
MaxChildren == 2
MaxLookaheads == 2

s_blah == <<98, 108, 97, 104>>
example_seq == SeqRule(<<Fixed(s_x), Symbol(s_blah)>>)

\* the rule objects the caller gives to Item
CallerRules ==
    {Empty, EndOfText, Fixed(s_x), Pattern(s_ident_pattern), Symbol(s_x), example_seq,
     SeqRule(<<>>), SeqRule(<<Fixed(s_translation_unit)>>),
     Choice(<<>>), Choice(<<Fixed(s_x)>>), Repeat1(<<Empty>>), Repeat1(<<example_seq>>)}
CallerNames == {LANGUAGE, s_x}
CallerChildren == {Empty, Fixed(s_x)}
CallerTerminals == {Fixed(s_x), EndOfText}

\* each test builds its own objects: the caller either makes Item and Repeat1
\* objects or works on LookaheadSet objects
InitObjects ==
    /\ pc \in {"objects", "lookaheads"}
    /\ json_rules = <<>> /\ start_symbol = <<>> /\ rules = <<>>
    /\ result = <<>> /\ snap = <<>> /\ ci = 0 /\ keep_going = FALSE
    /\ first = <<>> /\ follow = <<>> /\ hash_order = <<>> /\ max_item_sets = -1
    /\ las = <<>> /\ isets = <<>> /\ item_set_core_index = <<>>
    /\ LR1_item_sets_result = {} /\ dirty_set = {} /\ work_list = <<>>
    /\ lr1_item_sets = <<>>
    /\ by_index = <<>> /\ LALR1_item_sets_result = {} /\ item_sets = <<>>
    /\ action_table = <<>> /\ conflicts = <<>> /\ reduced_items = <<>>
    /\ pending = <<>> /\ reductions = <<>>
    /\ run_no = 1 /\ first_run = no_outcome
    /\ lookaheads = <<>> /\ returned = no_call /\ visited = {}
    /\ no_processor

Item_New ==
    /\ pc = "objects"
    /\ \E lhs \in CallerNames, rule \in CallerRules, position \in -1..MaxPosition :
          returned' = [op |-> "Item", even |-> ~returned.even,
                       lhs |-> lhs, rule |-> rule, position |-> position,
                       result |-> Item_init(lhs, rule, position)]
    /\ UNCHANGED <<grammarVars, lookaheads, orderVars, rewriteVars>>

Repeat1_New ==
    /\ pc = "objects"
    /\ \E n \in 0..MaxChildren : \E children \in [1..n -> CallerChildren] :
          returned' = [op |-> "Repeat1", even |-> ~returned.even, children |-> children,
                       result |-> Repeat1_init(children)]
    /\ UNCHANGED <<grammarVars, lookaheads, orderVars, rewriteVars>>

Lookahead_New ==
    /\ pc = "lookaheads" /\ Len(lookaheads) < MaxLookaheads
    /\ \E T \in SUBSET CallerTerminals :
          /\ lookaheads' = Append(lookaheads, LookaheadSet_init(T))
          /\ returned' = [op |-> "LookaheadSet", even |-> ~returned.even,
                          self |-> Len(lookaheads) + 1]
    /\ UNCHANGED <<grammarVars, orderVars, rewriteVars>>

Lookahead_Str ==
    /\ pc = "lookaheads"
    /\ \E r \in DOMAIN lookaheads :
          /\ lookaheads' = [lookaheads EXCEPT ![r] = LookaheadSet_str(lookaheads[r]).self]
          /\ returned' = [op |-> "str", even |-> ~returned.even, self |-> r,
                          result |-> returns(LookaheadSet_str(lookaheads[r]).value)]
    /\ UNCHANGED <<grammarVars, orderVars, rewriteVars>>

Lookahead_Merge ==
    /\ pc = "lookaheads"
    /\ \E r \in DOMAIN lookaheads, o \in DOMAIN lookaheads :
          /\ lookaheads' = [lookaheads EXCEPT
                                ![r] = LookaheadSet_merge(lookaheads[r], lookaheads[o]).self]
          /\ returned' = [op |-> "merge", even |-> ~returned.even, self |-> r, other |-> o,
                          result |-> returns(LookaheadSet_merge(lookaheads[r],
                                                                lookaheads[o]).value)]
    /\ UNCHANGED <<grammarVars, orderVars, rewriteVars>>

Lookahead_Add ==
    /\ pc = "lookaheads"
    /\ \E r \in DOMAIN lookaheads, element \in CallerTerminals :
          returned' = [op |-> "add", even |-> ~returned.even, self |-> r, element |-> element,
                       result |-> LookaheadSet_add(lookaheads[r], element)]
    /\ UNCHANGED <<grammarVars, lookaheads, orderVars, rewriteVars>>

Lookahead_Remove ==
    /\ pc = "lookaheads"
    /\ \E r \in DOMAIN lookaheads, element \in CallerTerminals :
          returned' = [op |-> "remove", even |-> ~returned.even, self |-> r, element |-> element,
                       result |-> LookaheadSet_remove(lookaheads[r], element)]
    /\ UNCHANGED <<grammarVars, lookaheads, orderVars, rewriteVars>>

NextObjects ==
    \/ Item_New \/ Repeat1_New
    \/ Lookahead_New \/ Lookahead_Str \/ Lookahead_Merge \/ Lookahead_Add \/ Lookahead_Remove

SpecObjects == InitObjects /\ [][NextObjects]_vars

------------------------------------------------------------------------

----------------------------------------------------------------------------
(* compute_first_sets and compute_follow_sets when a pass visits the entries
   of its dictionary in any order *)

\* `keep_going = True` under `if len(new_items) > 0`
keep_going_after(kg, new_items) == kg \/ new_items # {}

\* the <<key, n>> with the n-th alternative of rules[key] a Seq
seq_entries ==
    {e \in UNION {{rules[m].k} \X (1..Len(rules[m].v.ch)) :
                     m \in {k \in 1..Len(rules) : ~LeafRule(rules[k].v)}} :
        dict_get(rules, e[1]).ch[e[2]].t = "Seq"}

\* the documents loaded with passes in any order
AnyOrderDocuments == {DRAGON_BOOK_EXAMPLE_4_17, INLINE_GRAMMAR}

InitAnyOrder ==
    \E doc \in AnyOrderDocuments :
        /\ Constructed(doc)
        /\ hash_order = <<>>
        /\ max_item_sets = -1
        /\ run_no = 1
        /\ first_run = no_outcome

First_PassAnyOrder ==
    /\ pc = "first_while" /\ keep_going
    /\ keep_going' = FALSE
    /\ visited' = {}
    /\ pc' = "first_for"
    /\ UNCHANGED <<inputVars, rules, canonVars, ci, first, follow, heapVars, lr1Vars, work_list,
                   lalr1Vars, tableVars, runVars, callerVars, rewriteVars>>

First_RuleAnyOrder ==
    /\ pc = "first_for"
    /\ \E key \in SeqToSet(names_of_non_terminals(rules)) \ visited :
          LET rule == RuleObj(key)
              new_items == dynamic_first(rules, first, rule, 0) \ first[rule]
          IN  /\ first' = IF new_items # {} THEN first_union(first, rule, new_items) ELSE first
              /\ keep_going' = keep_going_after(keep_going, new_items)
              /\ visited' = visited \cup {key}
    /\ UNCHANGED <<pc, inputVars, rules, canonVars, ci, follow, heapVars, lr1Vars, work_list,
                   lalr1Vars, tableVars, runVars, callerVars, rewriteVars>>

First_PassEndAnyOrder ==
    /\ pc = "first_for" /\ visited = SeqToSet(names_of_non_terminals(rules))
    /\ pc' = "first_while"
    /\ visited' = {}
    /\ UNCHANGED <<inputVars, rules, canonVars, ci, keep_going, first, follow, heapVars, lr1Vars,
                   work_list, lalr1Vars, tableVars, runVars, callerVars, rewriteVars>>

Follow_PassAnyOrder ==
    /\ pc = "follow_while" /\ keep_going
    /\ keep_going' = FALSE
    /\ visited' = {}
    /\ pc' = "follow_for"
    /\ UNCHANGED <<inputVars, rules, canonVars, ci, first, follow, heapVars, lr1Vars, work_list,
                   lalr1Vars, tableVars, runVars, callerVars, rewriteVars>>

Follow_SeqAnyOrder ==
    /\ pc = "follow_for"
    /\ \E e \in seq_entries \ visited :
          LET seq == dict_get(rules, e[1]).ch[e[2]].ch
              st == process_seq(rules, first, e[1],
                                [i \in 1..Len(seq) |-> lookup(rules, seq[i])], 1,
                                [fo |-> follow, kg |-> keep_going])
          IN  /\ follow' = st.fo
              /\ keep_going' = st.kg
              /\ visited' = visited \cup {e}
    /\ UNCHANGED <<pc, inputVars, rules, canonVars, ci, first, heapVars, lr1Vars, work_list,
                   lalr1Vars, tableVars, runVars, callerVars, rewriteVars>>

\* a pass that may end before it has visited every sequence
Follow_PassEndEarly ==
    /\ pc = "follow_for" /\ visited # {}
    /\ pc' = "follow_while"
    /\ visited' = {}
    /\ UNCHANGED <<inputVars, rules, canonVars, ci, keep_going, first, follow, heapVars, lr1Vars,
                   work_list, lalr1Vars, tableVars, runVars, callerVars, rewriteVars>>

Follow_PassEndAnyOrder ==
    /\ pc = "follow_for" /\ visited = seq_entries
    /\ pc' = "follow_while"
    /\ visited' = {}
    /\ UNCHANGED <<inputVars, rules, canonVars, ci, keep_going, first, follow, heapVars, lr1Vars,
                   work_list, lalr1Vars, tableVars, runVars, callerVars, rewriteVars>>

NextAnyOrder ==
    \/ Canonicalize_Wrap \/ Canonicalize_Pass \/ Canonicalize_Rule
    \/ Canonicalize_PassEnd \/ Canonicalize_Return
    \/ First_Init \/ First_PassAnyOrder \/ First_RuleAnyOrder \/ First_PassEndAnyOrder
    \/ First_Return
    \/ Follow_Init \/ Follow_PassAnyOrder \/ Follow_SeqAnyOrder \/ Follow_PassEndAnyOrder
    \/ Follow_Return

SpecAnyOrder == InitAnyOrder /\ [][NextAnyOrder]_vars

----------------------------------------------------------------------------
(* rewrite.py: Processor.process on the lines of a Bikeshed source.
   A line is one of the sample lines below, without its line end; the grave
   accent of the Bikeshed definitions is written ^. *)

KW_BS == "* <dfn for=syntax_kw noexport>^while^</dfn>"
KW_EBNF == "<!--:ebnf:kw while :ebnf:-->"
SYN_BS == "* <dfn for=syntax_sym lt='semicolon' noexport>^';'^ Code point: U+003B</dfn>"
SYN_EBNF == "<!--:ebnf:syn semicolon ; Code point: U+003B :ebnf:-->"
BLANK_LINE == ""
BS_START == "<div class='syntax' noexport='true'>"
BS_DFN == "  <dfn for=syntax>while_statement</dfn> :"
BS_END == "</div>"
EBNF_START == "<!--:ebnf:rule"
EBNF_END == ":ebnf:-->"
ALTERNATIVE == "| kw:while expression"
TEXT_LINE == "while_statement"

SampleLines ==
    {KW_BS, KW_EBNF, SYN_BS, SYN_EBNF, BLANK_LINE, BS_START, BS_DFN, BS_END, EBNF_START,
     EBNF_END, ALTERNATIVE, TEXT_LINE}

\* the most lines a source has
MaxLines == 4

\* the compiled regular expressions of Processor.__init__: re.match(line)
bs_start_rule_re(line) == line = BS_START
bs_end_rule_re(line) == line = BS_END
bs_start_dfn_re(line) == line = BS_DFN
bs_kw_dfn_re(line) == line = KW_BS
bs_syn_dfn_re(line) == line = SYN_BS
ebnf_start_rule_re(line) == line = EBNF_START
ebnf_end_rule_re(line) == line = EBNF_END
\* "^(\S+)": every line that begins with another character than a blank
ebnf_start_dfn_re(line) == line \notin {BLANK_LINE, BS_DFN}
ebnf_kw_dfn_re(line) == line = KW_EBNF
ebnf_syn_dfn_re(line) == line = SYN_EBNF

\* group(1) of the match of a definition or rule header line
group1(line) ==
    CASE line \in {KW_BS, KW_EBNF} -> "while"
      [] line \in {SYN_BS, SYN_EBNF} -> "semicolon"
      [] line \in {BS_DFN, TEXT_LINE} -> "while_statement"
      [] line = ALTERNATIVE -> "|"
      [] line = BS_START -> "<div"
      [] OTHER -> line

\* match_alternative(options, line): [ok, alt]
match_alternative(line) ==
    IF line = ALTERNATIVE THEN [ok |-> TRUE, alt |-> <<"kw:while", "expression">>]
    ELSE [ok |-> FALSE, alt |-> <<>>]

\* the objects a TaggedLine holds: a str, or a GrammarElement
Str(line) == [el |-> "str", name |-> line, alternatives |-> <<>>]
KeywordDef(name) == [el |-> "KeywordDef", name |-> name, alternatives |-> <<>>]
SynTokenDef(linktext) == [el |-> "SynTokenDef", name |-> linktext, alternatives |-> <<>>]
RewriteRule(name, alts) == [el |-> "Rule", name |-> name, alternatives |-> alts]
GrammarElement(e) == e.el # "str"

TAG_TEXT == "text"
TAG_EBNF == "ebnf"
TAG_EBNF_NEW == "ebnf_new"
TAG_BS == "bs"
TAG_BS_NEW == "bs_new"
TaggedLine(tag, line) == [tag |-> tag, line |-> line]

\* Processor.emit of a GrammarElement or of a str
emit(res, element) ==
    IF GrammarElement(element)
    THEN res \o <<TaggedLine(TAG_EBNF_NEW, element), TaggedLine(TAG_BS_NEW, element)>>
    ELSE Append(res, TaggedLine(TAG_TEXT, element))

\* Processor.emit of each line of a list, as text or with a tag
RECURSIVE emit_all(_, _, _)
emit_all(res, tag, text) ==
    IF text = <<>> THEN res
    ELSE emit_all(IF tag = TAG_TEXT THEN emit(res, Str(Head(text)))
                  ELSE Append(res, TaggedLine(tag, Str(Head(text)))),
                  tag, Tail(text))

\* Processor.parse_kw_dfn and Processor.parse_syn_dfn: [matched, result]
parse_kw_dfn(opt, res, line) ==
    IF bs_kw_dfn_re(line)
    THEN [matched |-> TRUE,
          result |-> IF opt.sot_bs THEN emit(res, KeywordDef(group1(line))) ELSE res]
    ELSE IF ebnf_kw_dfn_re(line)
    THEN [matched |-> TRUE,
          result |-> IF opt.sot_ebnf THEN emit(res, KeywordDef(group1(line))) ELSE res]
    ELSE [matched |-> FALSE, result |-> res]

parse_syn_dfn(opt, res, line) ==
    IF bs_syn_dfn_re(line)
    THEN [matched |-> TRUE,
          result |-> IF opt.sot_bs THEN emit(res, SynTokenDef(group1(line))) ELSE res]
    ELSE IF ebnf_syn_dfn_re(line)
    THEN [matched |-> TRUE,
          result |-> IF opt.sot_ebnf THEN emit(res, SynTokenDef(group1(line))) ELSE res]
    ELSE [matched |-> FALSE, result |-> res]

\* the line is a keyword or syntax-token definition
is_definition(line) ==
    bs_kw_dfn_re(line) \/ ebnf_kw_dfn_re(line) \/ bs_syn_dfn_re(line) \/ ebnf_syn_dfn_re(line)

is_blank(line) == line = BLANK_LINE

\* the line ends a rule: "</div>" or ":ebnf:-->"
is_end_rule(line) == bs_end_rule_re(line) \/ ebnf_end_rule_re(line)

\* flush with a generate that makes a Rule of no alternative
flush_never_raises(sot, tag, def, res, line) ==
    IF ~sot THEN [raised |-> FALSE, current_def |-> def, result |-> res]
    ELSE IF def.name # ""
    THEN [raised |-> FALSE, current_def |-> CurrentDef,
          result |-> Append(emit_all(emit(res, RewriteRule(def.name, def.alternatives)),
                                     tag, def.text),
                            TaggedLine(tag, Str(line)))]
    ELSE [raised |-> FALSE, current_def |-> CurrentDef,
          result |-> emit(emit_all(res, TAG_TEXT, def.text), Str(line))]

\* the body of `if self.bs_end_rule_re.match(line)` (tag TAG_BS, sot the
\* option sot_bs) and of `if self.ebnf_end_rule_re.match(line)` (TAG_EBNF,
\* sot_ebnf): [raised, current_def, result]
flush(sot, tag, def, res, line) ==
    IF ~sot THEN [raised |-> FALSE, current_def |-> def, result |-> res]
    ELSE IF def.name # ""
    THEN IF Len(def.alternatives) < 1
         THEN [raised |-> TRUE, current_def |-> def, result |-> res]
         ELSE [raised |-> FALSE, current_def |-> CurrentDef,
               result |-> Append(emit_all(emit(res, RewriteRule(def.name, def.alternatives)),
                                          tag, def.text),
                                 TaggedLine(tag, Str(line)))]
    ELSE [raised |-> FALSE, current_def |-> CurrentDef,
          result |-> emit(emit_all(res, TAG_TEXT, def.text), Str(line))]

State == [INITIAL |-> "init", BS_EXPECT_RULE_HEADER |-> "bs_erh",
          BS_EXPECT_ALTERNATIVE |-> "bs_ea", EBNF_EXPECT_RULE_HEADER |-> "ebnf_erh",
          EBNF_EXPECT_ALTERNATIVE |-> "ebnf_ea"]

\* the line the for loop takes next
line == lines[line_num + 1]

\* the for loop has a line to take
in_process == pc = "process" /\ line_num < Len(lines)

otherVars ==
    <<inputVars, rules, canonVars, ci, keep_going, first, follow, heapVars, lr1Vars, work_list,
      lalr1Vars, tableVars, runVars, callerVars, orderVars>>

\* `if self.parse_kw_dfn(line): continue`, `if self.parse_syn_dfn(line): continue`
Process_Definition ==
    /\ in_process /\ is_definition(line)
    /\ self_result' = IF parse_kw_dfn(options, self_result, line).matched
                      THEN parse_kw_dfn(options, self_result, line).result
                      ELSE parse_syn_dfn(options, self_result, line).result
    /\ line_num' = line_num + 1
    /\ UNCHANGED <<pc, options, lines, state, current_def, otherVars>>

\* `if len(line.rstrip()) == 0`
Process_Blank ==
    /\ in_process /\ ~is_definition(line) /\ is_blank(line)
    /\ IF Len(current_def.text) > 0
       THEN /\ current_def' = [current_def EXCEPT !.text = Append(@, line)]
            /\ UNCHANGED self_result
       ELSE /\ self_result' = emit(self_result, Str(line))
            /\ UNCHANGED current_def
    /\ line_num' = line_num + 1
    /\ UNCHANGED <<pc, options, lines, state, otherVars>>

\* `if self.bs_end_rule_re.match(line)` and `if self.ebnf_end_rule_re.match(line)`
Process_EndRule ==
    /\ in_process /\ ~is_definition(line) /\ ~is_blank(line) /\ is_end_rule(line)
    /\ LET f == IF bs_end_rule_re(line)
                THEN flush(options.sot_bs, TAG_BS, current_def, self_result, line)
                ELSE flush(options.sot_ebnf, TAG_EBNF, current_def, self_result, line)
       IN  /\ current_def' = f.current_def
           /\ self_result' = f.result
           /\ pc' = IF f.raised THEN "process_raised" ELSE pc
           /\ state' = IF f.raised THEN state ELSE State.INITIAL
    /\ line_num' = line_num + 1
    /\ UNCHANGED <<options, lines, otherVars>>

\* the line is none of the lines taken before the states are looked at
is_state_line == in_process /\ ~is_definition(line) /\ ~is_blank(line) /\ ~is_end_rule(line)

\* `if state == State.INITIAL` with a line that starts a rule
Process_StartRule ==
    /\ is_state_line /\ state = State.INITIAL
    /\ bs_start_rule_re(line) \/ ebnf_start_rule_re(line)
    /\ state' = IF bs_start_rule_re(line) THEN State.BS_EXPECT_RULE_HEADER
                ELSE State.EBNF_EXPECT_RULE_HEADER
    /\ current_def' = [current_def EXCEPT !.text = <<line>>]
    /\ line_num' = line_num + 1
    /\ UNCHANGED <<pc, options, lines, self_result, otherVars>>

\* the line is the rule header the state expects
is_header ==
    \/ state = State.BS_EXPECT_RULE_HEADER /\ bs_start_dfn_re(line)
    \/ state = State.EBNF_EXPECT_RULE_HEADER /\ ebnf_start_dfn_re(line)

\* `if state == State.BS_EXPECT_RULE_HEADER`, `if state == State.EBNF_EXPECT_RULE_HEADER`
\* with a line that is the header
Process_RuleHeader ==
    /\ is_state_line /\ is_header
    /\ current_def' =
          IF (state = State.BS_EXPECT_RULE_HEADER /\ options.sot_bs)
             \/ (state = State.EBNF_EXPECT_RULE_HEADER /\ options.sot_ebnf)
          THEN [name |-> group1(line), text |-> Append(current_def.text, line),
                alternatives |-> <<>>]
          ELSE current_def
    /\ state' = IF state = State.BS_EXPECT_RULE_HEADER THEN State.BS_EXPECT_ALTERNATIVE
                ELSE State.EBNF_EXPECT_ALTERNATIVE
    /\ line_num' = line_num + 1
    /\ UNCHANGED <<pc, options, lines, self_result, otherVars>>

\* `if state == State.BS_EXPECT_ALTERNATIVE`, `if state == State.EBNF_EXPECT_ALTERNATIVE`
Process_Alternative ==
    /\ is_state_line
    /\ state \in {State.BS_EXPECT_ALTERNATIVE, State.EBNF_EXPECT_ALTERNATIVE}
    /\ LET sot == IF state = State.BS_EXPECT_ALTERNATIVE THEN options.sot_bs
                  ELSE options.sot_ebnf
           m == match_alternative(line)
       IN  /\ current_def' =
                 IF ~sot THEN current_def
                 ELSE [current_def EXCEPT
                          !.text = Append(@, line),
                          !.alternatives = IF m.ok THEN Append(@, m.alt) ELSE @]
           /\ pc' = IF m.ok THEN pc ELSE "process_raised"
    /\ line_num' = line_num + 1
    /\ UNCHANGED <<options, lines, state, self_result, otherVars>>

\* the last statement of the loop body: `self.emit(line)`
Process_Text ==
    /\ is_state_line
    /\ state = State.INITIAL => ~(bs_start_rule_re(line) \/ ebnf_start_rule_re(line))
    /\ state \in {State.BS_EXPECT_RULE_HEADER, State.EBNF_EXPECT_RULE_HEADER} => ~is_header
    /\ state \notin {State.BS_EXPECT_ALTERNATIVE, State.EBNF_EXPECT_ALTERNATIVE}
    /\ self_result' = emit(self_result, Str(line))
    /\ line_num' = line_num + 1
    /\ UNCHANGED <<pc, options, lines, state, current_def, otherVars>>

\* `return self.result`
Process_Return ==
    /\ pc = "process" /\ line_num = Len(lines)
    /\ pc' = "processed"
    /\ UNCHANGED <<rewriteVars, otherVars>>

\* the sources of at most n lines
RECURSIVE Sources(_)
Sources(n) ==
    IF n = 0 THEN {<<>>}
    ELSE Sources(n - 1) \cup {Append(s, l) : s \in Sources(n - 1), l \in SampleLines}

\* Processor(options).process(lines) is called: Options allows one source of
\* truth, main gives process the lines of the file
InitRewrite ==
    /\ pc = "process"
    /\ options \in {[sot_ebnf |-> TRUE, sot_bs |-> FALSE], [sot_ebnf |-> FALSE, sot_bs |-> TRUE]}
    /\ lines \in Sources(MaxLines)
    /\ line_num = 0
    /\ state = State.INITIAL
    /\ current_def = CurrentDef
    /\ self_result = <<>>
    /\ json_rules = <<>> /\ start_symbol = <<>> /\ rules = <<>>
    /\ result = <<>> /\ snap = <<>> /\ ci = 0 /\ keep_going = FALSE
    /\ first = <<>> /\ follow = <<>> /\ hash_order = <<>> /\ max_item_sets = -1
    /\ las = <<>> /\ isets = <<>> /\ item_set_core_index = <<>>
    /\ LR1_item_sets_result = {} /\ dirty_set = {} /\ work_list = <<>>
    /\ lr1_item_sets = <<>>
    /\ by_index = <<>> /\ LALR1_item_sets_result = {} /\ item_sets = <<>>
    /\ action_table = <<>> /\ conflicts = <<>> /\ reduced_items = <<>>
    /\ pending = <<>> /\ reductions = <<>>
    /\ run_no = 1 /\ first_run = no_outcome
    /\ lookaheads = <<>> /\ returned = no_call /\ visited = {}

NextRewrite ==
    \/ Process_Definition \/ Process_Blank \/ Process_EndRule \/ Process_StartRule
    \/ Process_RuleHeader \/ Process_Alternative \/ Process_Text \/ Process_Return

SpecRewrite == InitRewrite /\ [][NextRewrite]_vars

----
(* The language of a rule mapping, for the strings of at most MaxLen terminals *)

MaxLen == 3

\* the concatenations of a string of A and a string of B, at most MaxLen long
cat(A, B) == {x \o y : <<x, y>> \in {p \in A \X B : Len(p[1]) + Len(p[2]) <= MaxLen}}

RECURSIVE derived(_, _, _)
RECURSIVE derived_seq(_, _, _, _)
RECURSIVE derived_plus(_, _)
\* the strings expression e derives when name n derives env[n]
derived(rs, env, e) ==
    CASE e.t \in {"Fixed", "Pattern", "EndOfText"} -> {<<e>>}
      [] e.t = "Empty" -> {<<>>}
      [] e.t = "Symbol" -> IF dict_has(rs, e.c) THEN env[e.c] ELSE {}
      [] e.t = "Choice" -> UNION {derived(rs, env, e.ch[i]) : i \in 1..Len(e.ch)}
      [] e.t = "Seq" -> derived_seq(rs, env, e.ch, 1)
      [] e.t = "Repeat1" -> derived_plus(derived(rs, env, e.ch[1]), derived(rs, env, e.ch[1]))
derived_seq(rs, env, ch, n) ==
    IF n > Len(ch) THEN {<<>>}
    ELSE cat(derived(rs, env, ch[n]), derived_seq(rs, env, ch, n + 1))
\* one or more strings of X in a row
derived_plus(P, X) ==
    LET Q == P \cup cat(P, X) IN IF Q = P THEN P ELSE derived_plus(Q, X)

RECURSIVE language_from(_, _)
language_from(rs, env) ==
    LET next == [n \in DOMAIN env |-> derived(rs, env, dict_get(rs, n))]
    IN  IF next = env THEN env ELSE language_from(rs, next)

\* name -> the terminal strings of at most MaxLen terminals derivable from it
Lang(rs) == language_from(rs, [n \in SeqToSet(dict_keys(rs)) |-> {}])

canonicalized == pc \notin {"canonicalize", "canon_while", "canon_for"}

\* the mapping canonicalize_grammar was given
input_rules == Grammar_init(json_rules, start_symbol)

\* C1: canonicalize_grammar preserves the language: every rule name of the
\* input mapping derives the same terminal strings (of at most MaxLen
\* terminals) in the returned mapping as in the input mapping.
C1_LanguagePreserved ==
    canonicalized =>
        \A n \in SeqToSet(dict_keys(input_rules)) :
            /\ dict_has(rules, n)
            /\ Lang(rules)[n] = Lang(input_rules)[n]

\* a flat alternative as C2 words it: a terminal, a Symbol, Empty, or a Seq of
\* terminals and Symbols
flat_alternative(a) ==
    \/ is_terminal(a) \/ is_symbol(a) \/ is_empty(a)
    \/ a.t = "Seq" /\ \A j \in 1..Len(a.ch) : is_terminal(a.ch[j]) \/ is_symbol(a.ch[j])

----------------------------------------------------------------------------
(* The closure of an item set *)

\* the item [B -> . gamma] is among the entries with every member of
\* First(beta a) in its lookahead set
has_candidate(l, items, candidate, firsts) ==
    /\ dict_has(items, candidate)
    /\ firsts \subseteq l[dict_get(items, candidate)]

\* entry n = [A -> alpha . B beta] with lookahead set L asks nothing more of
\* the entries: B is no Symbol, or every B -> gamma and every a in L is there
closed_at(l, items, n, its, pos) ==
    \/ pos >= Len(its)
    \/ ~is_symbol(its[pos + 1])
    \/ close_raises(rules, its[pos + 1])
    \/ \A p \in 1..Len(close_rhs(rules, its[pos + 1])) : \A a \in l[items[n].v] :
           has_candidate(l, items, Item(its[pos + 1].c, close_rhs(rules, its[pos + 1])[p], 0),
                         first_of_phrase(rules, first, Append(SubSeq(its, pos + 2, Len(its)), a)))

is_closed(l, items) ==
    \A n \in 1..Len(items) :
        closed_at(l, items, n, item_items(items[n].k.rule), items[n].k.position)

\* close on the entries again gives the result c: no item and no lookahead more
nothing_added(l, items, c) ==
    /\ ~c.err
    /\ c.items = items
    /\ \A n \in 1..Len(items) : c.las[items[n].v] = l[items[n].v]

close_is_idempotent(l, items) ==
    nothing_added(l, items,
                  close(rules, first, hash_order,
                        [las |-> l, cores |-> item_set_core_index, err |-> FALSE], items))

\* the item sets LR1_ItemSets holds are the item sets close returned
lr1_closing == pc \in {"lr1_while", "lr1_for"}

\* C3: when ItemSet.close returns, the item set is closed (for every item
\* [A -> alpha . B beta] with lookahead set L where B is a Symbol, every
\* production B -> gamma and every a in L, the item [B -> . gamma] is in the
\* set with every member of First(beta a) in its lookahead set), and closing
\* the result again adds no item and no lookahead.
C3_CloseReturnsClosure ==
    lr1_closing =>
        \A r \in LR1_item_sets_result :
            /\ is_closed(las, isets[r].items)
            /\ close_is_idempotent(las, isets[r].items)

----------------------------------------------------------------------------
(* LALR(1) lookaheads against the LR(1) item sets *)

\* the item sets LR1_ItemSets returned that have the core of the entries items
lr1_same_core(items) ==
    {q \in SeqToSet(lr1_item_sets) : kernel_core(isets[q].items) = kernel_core(items)}

\* the union of the lookahead sets of item i over those item sets
lr1_lookahead_union(items, i) ==
    UNION {las[dict_get(isets[q].items, i)] :
               q \in {q \in lr1_same_core(items) : dict_has(isets[q].items, i)}}

\* C4: for every item set S returned by LALR1_ItemSets and every item i in S,
\* the lookahead set of i in S equals the union of the lookahead sets of i
\* over the item sets returned by LR1_ItemSets that have the same core as S.
C4_LookaheadIsUnionOverCore ==
    pc = "done" =>
        \A n \in 1..Len(item_sets) :
            \A m \in 1..Len(isets[item_sets[n]].items) :
                las[isets[item_sets[n]].items[m].v]
                    = lr1_lookahead_union(isets[item_sets[n]].items,
                                          isets[item_sets[n]].items[m].k)

----------------------------------------------------------------------------
(* The action table *)

\* the item sets of the LALR1 result that hold the item
\* [language -> start_symbol . EndOfText] with EndOfText in its lookahead set
accepting_item_sets ==
    {r \in SeqToSet(item_sets) :
        \E m \in 1..Len(isets[r].items) :
            /\ isets[r].items[m].k.lhs = LANGUAGE
            /\ isets[r].items[m].k.position = 1
            /\ EndOfText \in las[isets[r].items[m].v]}

\* the action table maps (r, terminal) to action
table_maps(r, terminal, action) ==
    \E e \in 1..Len(action_table) :
        /\ action_table[e].item_set = r
        /\ action_table[e].terminal = terminal
        /\ action_table[e].action = action

\* C5: the action table LALR1 returns maps (S, EndOfText) to Accept for the
\* item set S that holds [language -> start_symbol . EndOfText] with EndOfText
\* in its lookahead set; for translation_unit -> C C, C -> 'c' C | 'd' that is
\* the entry [#1 EndOfText]: acc.
C5_AcceptOnEndOfText ==
    pc = "done" =>
        /\ accepting_item_sets # {}
        /\ \A r \in accepting_item_sets : table_maps(r, EndOfText, Accept)
        /\ json_rules = EX442.rules =>
               \E r \in accepting_item_sets :
                   isets[r].core_index = 1 /\ table_maps(r, EndOfText, Accept)

\* LALR1 is building the action table
table_construction == pc \in {"table_for", "table_reduce", "table_shift"}

\* the entries of the table that hold the key (item_set, terminal) now
stored_for(item_set, terminal) ==
    action_index(action_table, item_set, content_str(las, isets[item_set].items), terminal)

\* what is stored stays stored, at its place
stored_kept ==
    /\ Len(action_table') >= Len(action_table)
    /\ \A i \in 1..Len(action_table) : action_table'[i] = action_table[i]

\* the step registers c = (item set, terminal, action) as C6 says
registered_first_wins(c, found) ==
    IF found = {}
    THEN /\ Len(action_table') = Len(action_table) + 1
         /\ action_table'[Len(action_table')].action = c.action
         /\ conflicts' = conflicts
    ELSE /\ action_table' = action_table
         /\ \A i \in found :
               IF action_table[i].action # c.action
               THEN conflicts' = Append(conflicts,
                                        Conflict(c.item_set, c.terminal,
                                                 action_table[i].action, c.action))
               ELSE conflicts' = conflicts

\* the actions a call of addAction may be given
some_actions ==
    {Accept} \cup {action_table[i].action : i \in 1..Len(action_table)}

\* a call of addAction for a key that is stored: the table stays, and the
\* conflict list grows by the one Conflict exactly when the action differs
call_first_wins(e, a, st) ==
    /\ st.action_table = action_table
    /\ st.conflicts = IF a # e.action
                      THEN Append(conflicts, Conflict(e.item_set, e.terminal, e.action, a))
                      ELSE conflicts

calls_first_win ==
    \A i \in 1..Len(action_table) : \A a \in some_actions :
        call_first_wins(action_table[i], a,
                        addAction([action_table |-> action_table, conflicts |-> conflicts],
                                  action_table[i].item_set,
                                  content_str(las, isets[action_table[i].item_set].items),
                                  action_table[i].terminal, a))

----------------------------------------------------------------------------
(* An LR driver over the tables of the LALR1 result *)

\* the most c in a row in the token strings c* d c* d that are driven
MaxRun == 2

\* the item set of the LALR1 result reached from item set S on the symbol X:
\* the transition the item sets define (0 when there is none)
goto_target(S, X) ==
    LET core == {e.k : e \in SeqToSet(advanced_items(isets[S].items, X))}
        T == {r \in SeqToSet(item_sets) : kernel_core(isets[r].items) = core}
    IN  IF core = {} \/ T = {} THEN 0 ELSE CHOOSE r \in T : TRUE

\* the actions the table holds for (S, terminal)
actions_for(S, terminal) ==
    {action_table[e].action :
        e \in {e \in 1..Len(action_table) :
                 action_table[e].item_set = S /\ action_table[e].terminal = terminal}}

\* the standard LR driver: stack holds item sets, input ends with EndOfText;
\* TRUE when the Accept action is reached within fuel steps
RECURSIVE lr_drive(_, _, _)
lr_reduce(stack, input, fuel, item, n) ==
    IF n >= Len(stack) \/ goto_target(stack[Len(stack) - n], Symbol(item.lhs)) = 0 THEN FALSE
    ELSE lr_drive(Append(SubSeq(stack, 1, Len(stack) - n),
                         goto_target(stack[Len(stack) - n], Symbol(item.lhs))),
                  input, fuel - 1)

lr_act(stack, input, fuel, a) ==
    CASE a.t = "Accept" -> TRUE
      [] a.t = "Shift" -> lr_drive(Append(stack, a.item_set), Tail(input), fuel - 1)
      [] a.t = "Reduce" -> lr_reduce(stack, input, fuel, a.item, Len(item_items(a.item.rule)))

lr_drive(stack, input, fuel) ==
    IF fuel = 0 \/ input = <<>> \/ actions_for(stack[Len(stack)], Head(input)) = {} THEN FALSE
    ELSE lr_act(stack, input, fuel,
                CHOOSE a \in actions_for(stack[Len(stack)], Head(input)) : TRUE)

\* the driver started in the item set of core index 0
lr_accepts(tokens) ==
    \E r \in SeqToSet(item_sets) :
        /\ isets[r].core_index = 0
        /\ lr_drive(<<r>>, tokens \o <<EndOfText>>, 4 * Len(tokens) + 4)

\* the token string c^i d c^j d
sentence(i, j) ==
    [k \in 1..i |-> Fixed(s_c)] \o <<Fixed(s_d)>> \o [k \in 1..j |-> Fixed(s_c)] \o <<Fixed(s_d)>>

\* C7: for translation_unit -> C C, C -> 'c' C | 'd', LALR1 returns an empty
\* conflict list, and for every token string c* d c* d (of at most MaxRun c
\* in a row) the LR driver over the returned action table and the goto
\* transitions reaches the Accept action on EndOfText.
C7_Ex442DriverAccepts ==
    (pc = "done" /\ json_rules = EX442.rules) =>
        /\ conflicts = <<>>
        /\ \A i \in 0..MaxRun : \A j \in 0..MaxRun : lr_accepts(sentence(i, j))

----------------------------------------------------------------------------
(* Goto edges *)

\* the transitions (S, X, core index of the target) on a nonterminal X that
\* the item sets of the LALR1 result define
defined_goto_edges ==
    {<<S, X, isets[goto_target(S, X)].core_index>> :
        <<S, X>> \in {p \in SeqToSet(item_sets) \X {Symbol(rules[n].k) : n \in 1..Len(rules)} :
                         goto_target(p[1], p[2]) # 0}}

\* the transitions on a nonterminal that the LALR1 result records: of the
\* item sets, the action table, the reduced items and the conflicts it
\* returns, only the action table is keyed by (item set, symbol)
recorded_goto_edges ==
    {<<action_table[e].item_set, action_table[e].terminal, action_table[e].action.index>> :
        e \in {e \in 1..Len(action_table) :
                 is_symbol(action_table[e].terminal) /\ action_table[e].action.t = "Shift"}}

\* an edge as (core index of S, name of X, core index of the target)
edge_indices(E) == {<<isets[e[1]].core_index, e[2].c, e[3]>> : e \in E}

\* C8: for every item set S of the LALR1 result and every nonterminal X with
\* a non-empty goto(S, X) the result records a goto edge (S, X) -> core index
\* of the target; for translation_unit -> C C, C -> 'c' C | 'd' the edges are
\* exactly (#0, C) -> #2, (#0, translation_unit) -> #1, (#2, C) -> #6,
\* (#3, C) -> #5.
C8_GotoEdgesRecorded ==
    pc = "done" =>
        /\ defined_goto_edges \subseteq recorded_goto_edges
        /\ json_rules = EX442.rules =>
               edge_indices(recorded_goto_edges)
                   = {<<0, s_C, 2>>, <<0, s_translation_unit, 1>>, <<2, s_C, 6>>, <<3, s_C, 5>>}

----------------------------------------------------------------------------
(* Two runs on the same text *)

\* C9: two independent runs of Grammar.Load followed by LR1_ItemSets and
\* LALR1 on the same JSON text and start symbol give the same item-set lists
\* (items, lookaheads, core indices), action tables, reductions and conflict
\* lists, whatever the order in which sets are iterated.
C9_RunsAgree ==
    (run_no = 2 /\ pc \in {"done", "raised"}) => outcome = first_run

----------------------------------------------------------------------------
(* LR(1) against LALR(1) item sets *)

\* the kernel items of goto(S, X)
advanced_core(S, X) == {e.k : e \in SeqToSet(advanced_items(isets[S].items, X))}

\* the shift transitions (source core index, terminal, target core index)
\* derived from a list L of item sets
shift_transitions(L) ==
    {<<isets[p[1]].core_index, p[2], isets[p[3]].core_index>> :
        p \in {p \in SeqToSet(L) \X lookahead_terminals(rules) \X SeqToSet(L) :
                 /\ advanced_core(p[1], p[2]) # {}
                 /\ kernel_core(isets[p[3]].items) = advanced_core(p[1], p[2])}}

ex442_done == pc = "done" /\ json_rules = EX442.rules

\* C10 as stated: for S -> C C, C -> c C | d, LALR1_ItemSets returns 7 item
\* sets against the 9 of LR1_ItemSets, and the shift transitions derived from
\* the two collections are the same.
C10_SevenAgainstNine ==
    ex442_done =>
        /\ Len(item_sets) < Len(lr1_item_sets)
        /\ Len(item_sets) = 7
        /\ Len(lr1_item_sets) = 9
        /\ shift_transitions(item_sets) = shift_transitions(lr1_item_sets)

\* C10 as amended: for S -> C C, C -> c C | d, LALR1_ItemSets returns 7 item
\* sets against the 10 of LR1_ItemSets, and the shift transitions (source
\* core index, terminal, target core index) derived from the two collections
\* are the same.
C10_SevenAgainstTen ==
    ex442_done =>
        /\ Len(item_sets) < Len(lr1_item_sets)
        /\ Len(item_sets) = 7
        /\ Len(lr1_item_sets) = 10
        /\ shift_transitions(item_sets) = shift_transitions(lr1_item_sets)

\* both collections are returned for the grammar and have shift transitions
C10_Witness ==
    /\ ex442_done
    /\ Len(lr1_item_sets) > Len(item_sets)
    /\ shift_transitions(lr1_item_sets) # {}

----------------------------------------------------------------------------
(* First and Follow sets of the grammars of test.py *)

\* Grammar.Load returned for the document doc
loaded(doc) == pc = "loaded" /\ json_rules = doc.rules /\ start_symbol = doc.start

\* find(name).first and find(name).follow
first_of(name) == attr(first, obj_of_rule(rules, name))
follow_of(name) == attr(follow, obj_of_rule(rules, name))

\* C11: after Grammar.Load of the arithmetic grammar with start symbol E,
\* First(E) = First(T) = First(F) = {'(', 'id'}, First(Eprime) = {'+', Empty}
\* and First(Tprime) = {'*', Empty}.
C11_ArithmeticFirstSets ==
    loaded(DRAGON_BOOK_EXAMPLE_4_17) =>
        /\ first_of(s_E) = {Fixed(s_lparen), Fixed(s_id)}
        /\ first_of(s_T) = {Fixed(s_lparen), Fixed(s_id)}
        /\ first_of(s_F) = {Fixed(s_lparen), Fixed(s_id)}
        /\ first_of(s_Eprime) = {Fixed(s_plus_sign), Empty}
        /\ first_of(s_Tprime) = {Fixed(s_star_sign), Empty}

\* Grammar.Load returned for the arithmetic grammar, with First sets computed
C11_Witness ==
    /\ loaded(DRAGON_BOOK_EXAMPLE_4_17)
    /\ \A n \in {s_E, s_T, s_F, s_Eprime, s_Tprime} :
           dict_has(rules, n) /\ first_of(n) # {}

\* C12: after Grammar.Load of the arithmetic grammar with start symbol E,
\* Follow(E) = Follow(Eprime) = {')', EndOfText}, Follow(T) = Follow(Tprime) =
\* {')', '+', EndOfText} and Follow(F) = {')', '*', '+', EndOfText}.
C12_ArithmeticFollowSets ==
    loaded(DRAGON_BOOK_EXAMPLE_4_17) =>
        /\ follow_of(s_E) = {Fixed(s_rparen), EndOfText}
        /\ follow_of(s_Eprime) = {Fixed(s_rparen), EndOfText}
        /\ follow_of(s_T) = {Fixed(s_rparen), Fixed(s_plus_sign), EndOfText}
        /\ follow_of(s_Tprime) = {Fixed(s_rparen), Fixed(s_plus_sign), EndOfText}
        /\ follow_of(s_F) = {Fixed(s_rparen), Fixed(s_star_sign), Fixed(s_plus_sign), EndOfText}

\* Grammar.Load returned for the arithmetic grammar, with Follow sets computed
C12_Witness ==
    /\ loaded(DRAGON_BOOK_EXAMPLE_4_17)
    /\ \A n \in {s_E, s_T, s_F, s_Eprime, s_Tprime} :
           dict_has(rules, n) /\ follow_of(n) # {}

----------------------------------------------------------------------------
(* Follow sets by their definition: the terminals that come right after a  *)
(* nonterminal in a sentential form derivable from the top rule `language` *)

\* the names of the rules with alternatives
nonterminals == {rules[n].k : n \in {m \in 1..Len(rules) : rules[m].v.t = "Choice"}}

\* the alternatives of the rule A, each as the sequence of its elements,
\* a reference to a token rule replaced by the terminal
productions(A) ==
    {[i \in 1..Len(item_items(a)) |-> lookup(rules, item_items(a)[i])] :
        a \in SeqToSet(dict_get(rules, A).ch)}

\* every element of q from position i up to position j derives the empty
\* string, when the nonterminals of N do
all_nullable(N, q, i, j) ==
    \A m \in i..j : is_empty(q[m]) \/ (q[m].t = "Rule" /\ q[m].c \in N)

\* the nonterminals that derive the empty string
RECURSIVE nullable_from(_)
nullable_from(N) ==
    IF {A \in nonterminals : \E q \in productions(A) : all_nullable(N, q, 1, Len(q))} \subseteq N THEN N
    ELSE nullable_from(N \cup {A \in nonterminals : \E q \in productions(A) :
                                                       all_nullable(N, q, 1, Len(q))})
nullable == nullable_from({})

\* the nonterminals that occur in a sentential form derivable from `language`
RECURSIVE reachable_from(_)
reachable_from(R) ==
    IF {q[i].c : <<q, i>> \in {p \in UNION {productions(A) \X (1..8) : A \in R} :
                                 p[2] <= Len(p[1]) /\ p[1][p[2]].t = "Rule"}} \subseteq R
    THEN R
    ELSE reachable_from(R \cup {q[i].c : <<q, i>> \in
                                   {p \in UNION {productions(A) \X (1..8) : A \in R} :
                                      p[2] <= Len(p[1]) /\ p[1][p[2]].t = "Rule"}})
reachable == reachable_from({LANGUAGE})

\* the terminals that begin a string derived from the elements of q from
\* position i on, when nonterminal A begins with F[A]
begins(F, q, i) ==
    UNION {IF q[j].t = "Rule" THEN F[q[j].c] ELSE {q[j]} :
              j \in {k \in i..Len(q) : ~is_empty(q[k]) /\ all_nullable(nullable, q, i, k - 1)}}

RECURSIVE begin_sets(_)
begin_sets(F) ==
    IF \A A \in nonterminals : UNION {begins(F, q, 1) : q \in productions(A)} \subseteq F[A]
    THEN F
    ELSE begin_sets([A \in nonterminals |->
                        F[A] \cup UNION {begins(F, q, 1) : q \in productions(A)}])
begin_set == begin_sets([A \in nonterminals |-> {}])

\* what the occurrences of B in the productions of reachable nonterminals put
\* after B, when Fo is what is known to follow each nonterminal
follows_step(Fo, B) ==
    UNION {begins(begin_set, p[2], p[3] + 1)
               \cup (IF all_nullable(nullable, p[2], p[3] + 1, Len(p[2])) THEN Fo[p[1]] ELSE {}) :
           p \in {p \in UNION {{A} \X productions(A) \X (1..8) : A \in reachable} :
                    p[3] <= Len(p[2]) /\ p[2][p[3]] = RuleObj(B)}}

RECURSIVE follow_sets(_)
follow_sets(Fo) ==
    IF \A B \in nonterminals : follows_step(Fo, B) \subseteq Fo[B] THEN Fo
    ELSE follow_sets([B \in nonterminals |-> Fo[B] \cup follows_step(Fo, B)])

\* B |-> the terminals t with B t in a sentential form derivable from `language`
follows_in_sentential_forms == follow_sets([B \in nonterminals |-> {}])

\* compute_follow_sets has converged
follow_converged ==
    pc \notin {"canonicalize", "canon_while", "canon_for", "compute_first", "first_while",
               "first_for", "compute_follow", "follow_while", "follow_for"}

\* C13: when compute_follow_sets has converged, for every nonterminal B and
\* every terminal t (EndOfText included), t is in Follow(B) if and only if
\* some sentential form derivable from the top rule `language` contains B
\* immediately followed by t, whatever the shape of the flat alternatives.
C13_FollowIsSententialFollow ==
    follow_converged =>
        \A B \in nonterminals : follow_of(B) = follows_in_sentential_forms[B]

----------------------------------------------------------------------------
(* The item sets of example 4.42: translation_unit -> C C, C -> 'c' C | 'd' *)

\* the items of the grammar, the dot at position n
ex442_language(n) == Item(LANGUAGE, SeqRule(<<Symbol(s_translation_unit), EndOfText>>), n)
ex442_unit(n) == Item(s_translation_unit, SeqRule(<<Symbol(s_C), Symbol(s_C)>>), n)
ex442_cC(n) == Item(s_C, SeqRule(<<Fixed(s_c), Symbol(s_C)>>), n)
ex442_d(n) == Item(s_C, Fixed(s_d), n)

\* the items of the item set r, each with the content of its lookahead set
items_with_lookahead(r) ==
    {<<isets[r].items[i].k, las[isets[r].items[i].v]>> : i \in 1..Len(isets[r].items)}

\* the list L of item sets as core index, items and lookaheads, in order
listed(L) ==
    [i \in 1..Len(L) |-> <<isets[L[i]].core_index, items_with_lookahead(L[i])>>]

cd_end == {Fixed(s_c), Fixed(s_d), EndOfText}

\* EX442_LALR1_ITEMS_CLOSED_EXPECTED of test.py
EX442_LALR1_ITEMS_CLOSED_EXPECTED ==
    << <<0, {<<ex442_cC(0), cd_end>>, <<ex442_d(0), cd_end>>,
             <<ex442_language(0), {EndOfText}>>, <<ex442_unit(0), {EndOfText}>>}>>,
       <<1, {<<ex442_language(1), {EndOfText}>>}>>,
       <<2, {<<ex442_cC(0), {EndOfText}>>, <<ex442_d(0), {EndOfText}>>,
             <<ex442_unit(1), {EndOfText}>>}>>,
       <<3, {<<ex442_cC(1), cd_end>>, <<ex442_cC(0), cd_end>>, <<ex442_d(0), cd_end>>}>>,
       <<4, {<<ex442_d(1), cd_end>>}>>,
       <<5, {<<ex442_cC(2), cd_end>>}>>,
       <<6, {<<ex442_unit(2), {EndOfText}>>}>> >>

\* C14: for translation_unit -> C C, C -> 'c' C | 'd', LALR1_ItemSets returns
\* exactly 7 item sets with the core indices 0..6, each once, sorted by
\* index, with the items and lookaheads of EX442_LALR1_ITEMS_CLOSED_EXPECTED.
C14_Ex442LalrItemSets ==
    ex442_done =>
        /\ Len(item_sets) = 7
        /\ \A i \in 1..Len(item_sets) : isets[item_sets[i]].core_index = i - 1
        /\ listed(item_sets) = EX442_LALR1_ITEMS_CLOSED_EXPECTED

\* LALR1 returned item sets for the grammar, with lookaheads merged over a core
C14_Witness ==
    /\ ex442_done
    /\ \E i \in 1..Len(item_sets) :
          /\ isets[item_sets[i]].core_index = 3
          /\ <<ex442_cC(1), cd_end>> \in items_with_lookahead(item_sets[i])

cd_only == {Fixed(s_c), Fixed(s_d)}

\* the item set of core 3, 4 or 5 whose items carry the lookahead L
ex442_core3(L) == <<3, {<<ex442_cC(1), L>>, <<ex442_cC(0), L>>, <<ex442_d(0), L>>}>>
ex442_core4(L) == <<4, {<<ex442_d(1), L>>}>>
ex442_core5(L) == <<5, {<<ex442_cC(2), L>>}>>

\* EX442_LR1_ITEMS_CLOSED_EXPECTED of test.py
EX442_LR1_ITEMS_CLOSED_EXPECTED ==
    << <<0, {<<ex442_cC(0), cd_only>>, <<ex442_d(0), cd_only>>,
             <<ex442_language(0), {EndOfText}>>, <<ex442_unit(0), {EndOfText}>>}>>,
       <<1, {<<ex442_language(1), {EndOfText}>>}>>,
       <<2, {<<ex442_cC(0), {EndOfText}>>, <<ex442_d(0), {EndOfText}>>,
             <<ex442_unit(1), {EndOfText}>>}>>,
       ex442_core3(cd_only), ex442_core3({EndOfText}),
       ex442_core4(cd_only), ex442_core4({EndOfText}),
       ex442_core5(cd_only), ex442_core5({EndOfText}),
       <<6, {<<ex442_unit(2), {EndOfText}>>}>> >>

\* C15: for translation_unit -> C C, C -> 'c' C | 'd', LR1_ItemSets returns
\* exactly 10 distinct item sets sorted by core index: one each of core 0, 1,
\* 2 and 6 and two each of core 3, 4 and 5, the two of a pair with the same
\* items and the lookaheads {'c','d'} and {EndOfText}; item sets equal in items
\* and lookaheads appear once.
C15_Ex442Lr1ItemSets ==
    ex442_done =>
        /\ Len(lr1_item_sets) = 10
        /\ [i \in 1..Len(lr1_item_sets) |-> isets[lr1_item_sets[i]].core_index]
              = <<0, 1, 2, 3, 3, 4, 4, 5, 5, 6>>
        /\ listed(lr1_item_sets) = EX442_LR1_ITEMS_CLOSED_EXPECTED
        /\ \A i, j \in 1..Len(lr1_item_sets) :
              i # j => listed(lr1_item_sets)[i] # listed(lr1_item_sets)[j]
        /\ \A i, j \in 1..Len(lr1_item_sets) :
              isets[lr1_item_sets[i]].core_index = isets[lr1_item_sets[j]].core_index
                 => {p[1] : p \in items_with_lookahead(lr1_item_sets[i])}
                       = {p[1] : p \in items_with_lookahead(lr1_item_sets[j])}

\* LR1_ItemSets returned two item sets of one core for the grammar
C15_Witness ==
    /\ ex442_done
    /\ \E i, j \in 1..Len(lr1_item_sets) :
          /\ i # j
          /\ isets[lr1_item_sets[i]].core_index = isets[lr1_item_sets[j]].core_index
          /\ items_with_lookahead(lr1_item_sets[i]) # items_with_lookahead(lr1_item_sets[j])

----------------------------------------------------------------------------
(* The action table of example 4.42 *)

\* the Shift and Reduce entries of the action table: core index of the item
\* set, terminal, action ("s" with the core index of the target, "r" with the
\* reduction index)
shift_reduce_entries ==
    {<<isets[action_table[e].item_set].core_index, action_table[e].terminal,
       IF action_table[e].action.t = "Shift" THEN "s" ELSE "r", action_table[e].action.index>> :
        e \in {e \in 1..Len(action_table) : action_table[e].action.t \in {"Shift", "Reduce"}}}

\* the reduction index -> the item reduced, over the Reduce entries
reduced_by_index ==
    {<<action_table[e].action.index, action_table[e].action.item>> :
        e \in {e \in 1..Len(action_table) : action_table[e].action.t = "Reduce"}}

\* the Shift and Reduce lines of EX442_ACTIONS of test.py
EX442_ACTIONS ==
    {<<S, t[1], "s", t[2]>> : <<S, t>> \in {0, 2, 3} \X {<<Fixed(s_c), 3>>, <<Fixed(s_d), 4>>}}
    \cup {<<4, t, "r", 0>> : t \in cd_end}
    \cup {<<5, t, "r", 1>> : t \in cd_end}
    \cup {<<6, EndOfText, "r", 2>>}

\* C16: for translation_unit -> C C, C -> 'c' C | 'd', the shift and reduce
\* entries of the LALR1 action table are exactly: #0, #2 and #3 shift 'c' to
\* #3 and 'd' to #4; #4 reduces with index 0 (C -> 'd') on 'c', 'd' and
\* EndOfText; #5 reduces with index 1 (C -> 'c' C) on the same; #6 reduces with
\* index 2 (translation_unit -> C C) on EndOfText; each production has one
\* reduction index, shared by the states that reduce it.
C16_Ex442ShiftReduceEntries ==
    ex442_done =>
        /\ shift_reduce_entries = EX442_ACTIONS
        /\ reduced_by_index = {<<0, ex442_d(1)>>, <<1, ex442_cC(2)>>, <<2, ex442_unit(2)>>}
        /\ \A e \in 1..Len(action_table) :
              action_table[e].action.t = "Shift" =>
                 isets[action_table[e].action.item_set].core_index = action_table[e].action.index
        /\ \A i, j \in 1..Len(action_table) :
              (action_table[i].action.t = "Reduce" /\ action_table[j].action.t = "Reduce") =>
                 (action_table[i].action.index = action_table[j].action.index
                     <=> action_table[i].action.item = action_table[j].action.item)

\* the table of the grammar holds shifts and reductions on three terminals
C16_Witness ==
    /\ ex442_done
    /\ <<0, Fixed(s_c), "s", 3>> \in shift_reduce_entries
    /\ Cardinality({e \in shift_reduce_entries : e[3] = "r" /\ e[4] = 1}) = 3

----------------------------------------------------------------------------
(* The item sets of the star grammar: s -> ( at+ | BLANK ), at = '@' *)

\* the names canonicalization gives the rules it makes: "s/0.0", "s/0.0/0"
s_s00 == s_s \o <<47, 48, 46, 48>>
s_s000 == s_s00 \o <<47, 48>>

star_done == pc = "done" /\ json_rules = STAR_GRAMMAR.rules

at_end_text == {Fixed(s_atsign), EndOfText}

\* the items of the grammar, the dot at position n
star_at(n) == Item(s_at, Fixed(s_atsign), n)
star_language(n) == Item(LANGUAGE, SeqRule(<<Symbol(s_s), EndOfText>>), n)
star_s(n) == Item(s_s, SeqRule(<<Symbol(s_s00)>>), n)
star_s00(n) == Item(s_s00, Symbol(s_s000), n)
star_s000(n) == Item(s_s000, SeqRule(<<Symbol(s_at), Symbol(s_s000)>>), n)

\* STAR_ITEMS_EXPECTED of test.py
STAR_ITEMS_EXPECTED ==
    << <<0, {<<star_at(0), at_end_text>>, <<star_language(0), {EndOfText}>>,
             <<star_s(0), {EndOfText}>>, <<star_s00(0), {EndOfText}>>,
             <<star_s000(0), {EndOfText}>>}>>,
       <<1, {<<star_language(1), {EndOfText}>>}>>,
       <<2, {<<star_s(1), {EndOfText}>>}>>,
       <<3, {<<star_s00(1), {EndOfText}>>}>>,
       <<4, {<<star_at(0), at_end_text>>, <<star_s000(1), {EndOfText}>>,
             <<star_s000(0), {EndOfText}>>}>>,
       <<5, {<<star_at(1), at_end_text>>}>>,
       <<6, {<<star_s000(2), {EndOfText}>>}>> >>

\* C17: for the star grammar, LALR1_ItemSets returns exactly 7 item sets with
\* the core indices 0..6 whose items are exactly those of STAR_ITEMS_EXPECTED:
\* five items in #0, three in #4, one each in #1, #2, #3, #5 and #6.
C17_StarItemSets ==
    star_done =>
        /\ Len(item_sets) = 7
        /\ listed(item_sets) = STAR_ITEMS_EXPECTED
        /\ [i \in 1..Len(item_sets) |-> Len(isets[item_sets[i]].items)] = <<5, 1, 1, 1, 3, 1, 1>>

----------------------------------------------------------------------------
(* The Follow sets of SIMPLE_WGSL *)

\* "function_decl/0.0", the rule canonicalization makes for the attribute list
s_function_decl00 == s_function_decl \o <<47, 48, 46, 48>>

----------------------------------------------------------------------------
(* LALR1 with an item-set limit *)

\* LALR1 is running or has returned
in_LALR1 ==
    pc \in {"lalr1_while", "lalr1_for", "table_for", "table_reduce", "table_shift", "done"}

\* C19: when LALR1 is called with max_item_sets = N, the number of item-set
\* cores created during the run (the entries of by_index, and the item sets of
\* the returned list) never exceeds N, and the call returns without raising.
C19_ItemSetLimitKept ==
    [][max_item_sets >= 0 =>
          /\ in_LALR1' => /\ Cardinality(DOMAIN by_index') <= max_item_sets
                          /\ Len(item_sets') <= max_item_sets
          /\ (pc = "LALR1" \/ in_LALR1) => pc' # "raised"]_vars

----------------------------------------------------------------------------
(* JSON decoding *)

\* the object o is what the type tags of the JSON node n say: a Symbol for a
\* SYMBOL, a Fixed for a STRING, a Pattern for a PATTERN, each with the name or
\* value of the node; the content for a TOKEN; containers member by member
RECURSIVE decoded_by_tag(_, _)
decoded_by_tag(n, o) ==
    CASE n.type = "TOKEN" -> decoded_by_tag(n.members[1], o)
      [] n.type = "STRING" -> o = Fixed(n.value)
      [] n.type = "PATTERN" -> o = Pattern(n.value)
      [] n.type = "SYMBOL" -> o = Symbol(n.value)
      [] n.type = "BLANK" -> o = Empty
      [] OTHER -> /\ o.t = (CASE n.type = "CHOICE" -> "Choice" [] n.type = "SEQ" -> "Seq"
                              [] n.type = "REPEAT1" -> "Repeat1")
                  /\ Len(o.ch) = Len(n.members)
                  /\ \A i \in 1..Len(n.members) : decoded_by_tag(n.members[i], o.ch[i])

\* the SYMBOL, STRING and PATTERN nodes under the JSON node n, each with the
\* object at its place under the decoded o
RECURSIVE decoded_leaves(_, _)
decoded_leaves(n, o) ==
    CASE n.type = "TOKEN" -> decoded_leaves(n.members[1], o)
      [] n.type \in {"STRING", "PATTERN", "SYMBOL"} -> {<<n, o>>}
      [] n.type = "BLANK" -> {}
      [] OTHER -> UNION {decoded_leaves(n.members[i], o.ch[i]) : i \in 1..Len(n.members)}

all_decoded_leaves ==
    UNION {decoded_leaves(json_rules[i].v, dict_get(rules, json_rules[i].k)) :
              i \in 1..Len(json_rules)}

\* C20: JSON decoding gives each node the kind of its type tag whatever else
\* the document contains: a SYMBOL node becomes a Symbol with its name, a
\* STRING node a Fixed with its value, a PATTERN node a Pattern with its value;
\* two decoded nodes are the same object if and only if they have the same
\* type tag and the same value or name.
C20_DecodedByTypeTag ==
    pc = "canonicalize" =>
        /\ \A i \in 1..Len(json_rules) :
              decoded_by_tag(json_rules[i].v, dict_get(rules, json_rules[i].k))
        /\ \A p, q \in all_decoded_leaves :
              p[2] = q[2] <=> (p[1].type = q[1].type /\ p[1].value = q[1].value)

----------------------------------------------------------------------------
(* Canonicalization applied again *)

\* C21: canonicalization is idempotent: canonicalize_grammar applied to a
\* mapping it returned yields a mapping with the same rule names and equal
\* right-hand sides, and creates no auxiliary rule.
C21_CanonicalizeIdempotent ==
    canonicalized =>
        /\ canonicalize_grammar(rules) = rules
        /\ Len(canonicalize_grammar(rules)) = Len(rules)

\* canonicalize_grammar returned a mapping for which it made auxiliary rules
C21_Witness ==
    /\ canonicalized
    /\ Len(rules) > Len(input_rules)
    /\ canonicalize_grammar(input_rules) = rules

----------------------------------------------------------------------------
(* The fixed-point loops of compute_first_sets and compute_follow_sets *)

in_first_loop == pc \in {"first_while", "first_for"}
in_follow_loop == pc \in {"follow_while", "follow_for"}

\* every object keeps what the attribute map f gave it, in the map g
grown(f, g) == \A o \in DOMAIN f : o \in DOMAIN g /\ f[o] \subseteq g[o]

\* C22: in every step of the fixed-point loops of compute_first_sets and
\* compute_follow_sets, the First set and the Follow set of every rule after
\* the step are supersets of those before the step, and derives_empty() of a
\* rule never goes from true back to false.
C22_SetsOnlyGrow ==
    [][(in_first_loop \/ in_follow_loop) =>
          /\ grown(first, first')
          /\ grown(follow, follow')
          /\ \A o \in DOMAIN first : obj_derives_empty(first, o) => obj_derives_empty(first', o)]_vars

\* both loops have added to sets that were not empty, and a rule derives Empty
C22_Witness ==
    /\ pc = "follow_for" /\ keep_going
    /\ \E o \in DOMAIN follow : Cardinality(follow[o]) > 1
    /\ \E o \in DOMAIN first : o.t = "Rule" /\ Cardinality(first[o]) > 1
    /\ \E o \in DOMAIN first : o.t = "Rule" /\ obj_derives_empty(first, o)

----------------------------------------------------------------------------
(* Kernel items and accepting items *)

\* the items of the item sets the run holds
held_items == UNION {{isets[r].items[i].k : i \in 1..Len(isets[r].items)} : r \in 1..Len(isets)}

\* ItemSet({item: LookaheadSet(L)}).is_accepting()
alone_is_accepting(item, L) == ItemSet_is_accepting(<<L>>, <<[k |-> item, v |-> 1]>>)

\* C23: Item.is_kernel() is true exactly when position > 0 or the left-hand
\* side is `language`; Item.is_accepting() exactly when the left-hand side is
\* `language` and position is 1; ItemSet.is_accepting() exactly when the set
\* holds an accepting item whose lookahead set includes EndOfText. Hence the
\* top-rule item at position 0 is a kernel item and never accepting, and the
\* one at position 1 is accepting in an item set only with EndOfText in its
\* lookahead.
C23_KernelAndAccepting ==
    /\ \A item \in held_items :
          /\ is_kernel(item) <=> (item.position > 0 \/ item.lhs = LANGUAGE)
          /\ is_accepting(item) <=> (item.lhs = LANGUAGE /\ item.position = 1)
          /\ \A L \in SUBSET lookahead_terminals(rules) :
                /\ alone_is_accepting(item, L)
                      <=> (item.lhs = LANGUAGE /\ item.position = 1 /\ EndOfText \in L)
                /\ (item.lhs = LANGUAGE /\ item.position = 0) =>
                      is_kernel(item) /\ ~is_accepting(item) /\ ~alone_is_accepting(item, L)
    /\ \A r \in 1..Len(isets) :
          ItemSet_is_accepting(las, isets[r].items)
             <=> \E i \in 1..Len(isets[r].items) :
                    /\ isets[r].items[i].k.lhs = LANGUAGE
                    /\ isets[r].items[i].k.position = 1
                    /\ EndOfText \in las[isets[r].items[i].v]

\* the run holds the top-rule item at position 0 and at position 1, the
\* latter in an accepting item set, and items that are not kernel items
C23_Witness ==
    /\ \E item \in held_items : item.lhs = LANGUAGE /\ item.position = 0
    /\ \E item \in held_items : item.lhs # LANGUAGE /\ item.position = 0
    /\ \E item \in held_items : item.lhs # LANGUAGE /\ item.position = 1
    /\ \E r \in 1..Len(isets) :
          /\ ItemSet_is_accepting(las, isets[r].items)
          /\ \E i \in 1..Len(isets[r].items) : is_accepting(isets[r].items[i].k)

----------------------------------------------------------------------------
(* Constructing Item and Repeat1 objects *)

\* the number of symbols of a flat production
number_of_symbols(rule) ==
    CASE rule.t = "Empty" -> 0
      [] rule.t \in {"Fixed", "Pattern", "EndOfText", "Symbol"} -> 1
      [] rule.t = "Seq" -> Len(rule.ch)
      [] OTHER -> -1

\* the symbols of a flat production, from left to right
symbol_list(rule) ==
    CASE rule.t = "Empty" -> <<>>
      [] rule.t = "Seq" -> [i \in 1..Len(rule.ch) |-> rule.ch[i]]
      [] OTHER -> <<rule>>

\* C24: Item(lhs, rule, position) raises RuntimeError exactly when the position
\* is negative or larger than the number of symbols of the production, or the
\* rule is a Choice or a Repeat1; otherwise the item keeps lhs, rule, position
\* and the list of symbols. Repeat1(children) raises RuntimeError exactly when
\* the number of children is not 1.
C24_ItemAndRepeat1Construction ==
    /\ returned.op = "Item" =>
          /\ returned.result.raised <=>
                \/ returned.position < 0
                \/ returned.position > number_of_symbols(returned.rule)
                \/ returned.rule.t \in {"Choice", "Repeat1"}
          /\ ~returned.result.raised =>
                /\ returned.result.value.item.lhs = returned.lhs
                /\ returned.result.value.item.rule = returned.rule
                /\ returned.result.value.item.position = returned.position
                /\ returned.result.value.items = symbol_list(returned.rule)
    /\ returned.op = "Repeat1" =>
          /\ returned.result.raised <=> Len(returned.children) # 1
          /\ ~returned.result.raised => returned.result.value.ch = returned.children

C24_Witness ==
    /\ returned.op = "Item" /\ ~returned.result.raised
    /\ returned.rule = example_seq /\ returned.position = Len(example_seq.ch)

----------------------------------------------------------------------------
(* LookaheadSet objects *)

\* the step is a call self.merge(other) of the caller
merged_step == returned'.even # returned.even /\ returned'.op = "merge"

\* C25: a call self.merge(other) leaves self equal to the union of its former
\* content and other, returns True exactly when an element of other was not
\* in self, and str(self) afterwards is the rendering of the new content; no
\* step takes an element out of a LookaheadSet, and add and remove raise
\* RuntimeError.
C25_LookaheadSetMerge ==
    [][/\ \A r \in DOMAIN lookaheads : lookaheads[r].set \subseteq lookaheads'[r].set
       /\ merged_step =>
             LET self == returned'.self
                 other == returned'.other
             IN  /\ lookaheads'[self].set = lookaheads[self].set \cup lookaheads[other].set
                 /\ returned'.result.value <=>
                        ~(lookaheads[other].set \subseteq lookaheads[self].set)
                 /\ LookaheadSet_str(lookaheads'[self]).value
                        = str_lookahead(lookaheads'[self].set)
       /\ returned'.even # returned.even /\ returned'.op \in {"add", "remove"} =>
             returned'.result.raised /\ lookaheads' = lookaheads]_vars

C25_Witness ==
    /\ returned.op = "merge" /\ returned.result.value
    /\ Cardinality(lookaheads[returned.self].set) = 2
    /\ \E r \in DOMAIN lookaheads : lookaheads[r].str # None

----------------------------------------------------------------------------
(* The list of reductions LALR1 returns *)

\* the index the Reduce actions of the action table carry for an item
reduce_index_of(item) ==
    CHOOSE n \in 0..Len(reduced_items) :
        \E i \in 1..Len(action_table) :
            /\ action_table[i].action.t = "Reduce"
            /\ action_table[i].action.item = item
            /\ action_table[i].action.index = n

\* C26: in the tuple LALR1 returns, the i-th element (from 0) of the third
\* element is the item whose reduction index, as the Reduce actions of the
\* action table carry it, is i.
C26_ReductionsInIndexOrder ==
    pc = "done" =>
        \A i \in 1..Len(reductions) : reduce_index_of(reductions[i]) = i - 1

----------------------------------------------------------------------------
(* First sets as a least fixed point *)

\* First of one element of a production, when nonterminal A has First F[A]
first_of_element(F, x) == IF x.t = "Rule" THEN F[x.c] ELSE {x}

\* what the production q contributes to the First set of its rule
contribution(F, q) ==
    UNION {{e \in first_of_element(F, q[i]) : ~is_empty(e)} :
              i \in {k \in 1..Len(q) : \A j \in 1..(k - 1) : Empty \in first_of_element(F, q[j])}}
    \cup (IF \A i \in 1..Len(q) : Empty \in first_of_element(F, q[i]) THEN {Empty} ELSE {})

\* the least F with F[A] = the union of the contributions of A's alternatives
RECURSIVE least_first_from(_)
least_first_from(F) ==
    IF \A A \in nonterminals : UNION {contribution(F, q) : q \in productions(A)} = F[A]
    THEN F
    ELSE least_first_from([A \in nonterminals |->
                              UNION {contribution(F, q) : q \in productions(A)}])
least_first == least_first_from([A \in nonterminals |-> {}])

\* compute_first_sets has returned: the state at its return, and the states
\* in which the caller reads the sets
first_converged == pc \in {"compute_follow", "loaded", "done"}

\* the productions whose first element is optional and followed by another
optional_first(A) ==
    {q \in productions(A) : Len(q) >= 2 /\ q[1].t = "Rule" /\ Empty \in first_of(q[1].c)}

\* the First sets the nonterminals have are the sets F
first_sets_are(F) ==
    \A A \in nonterminals :
        /\ first_of(A) = F[A]
        /\ first_of(A) = UNION {contribution(F, q) : q \in productions(A)}
        /\ \A q \in optional_first(A) :
               {e \in first_of_element(F, q[2]) : ~is_empty(e)} \subseteq first_of(A)

\* C27: when compute_first_sets has converged, First(A) of every nonterminal A
\* is the least set that is the union of what A's alternatives contribute: a
\* Symbol alternative the First set of the rule it names, a Seq X1..Xn the
\* First(Xi) without Empty for every i with X1..X(i-1) all deriving Empty, and
\* Empty exactly when every Xi derives Empty. A Seq with an optional first
\* element has the First set of its second element in its First set.
C27_FirstIsLeastFixedPoint == first_converged => first_sets_are(least_first)

----------------------------------------------------------------------------
(* First sets of the terminals *)

\* the terminals that occur in the productions, and those with a rule of their own
terminals_of_productions ==
    {t \in UNION {SeqToSet(q) : q \in UNION {productions(A) : A \in nonterminals}} :
        is_terminal(t)}
    \cup {rules[n].v : n \in {m \in 1..Len(rules) : is_terminal(rules[m].v)}}

\* Grammar.Load has returned
after_load == pc \in {"loaded", "LR1_ItemSets"}

\* C28: after Grammar.Load, every terminal that occurs in a production (with a
\* token rule of its own, or written as a STRING or PATTERN node inside the
\* body of a rule) and EndOfText have the First set {itself} and do not derive
\* Empty; Empty has the First set {Empty} and derives Empty.
C28_TerminalFirstSets ==
    after_load =>
        /\ \A t \in terminals_of_productions \cup {EndOfText} :
               attr(first, t) = {t} /\ ~obj_derives_empty(first, t)
        /\ attr(first, Empty) = {Empty} /\ obj_derives_empty(first, Empty)

----------------------------------------------------------------------------
(* Follow sets are closed under the two rules *)

\* the First set the element x of a sequence has after Load
first_as_loaded(x) == attr(first, lookup(rules, x))

\* the occurrences <<A, q, i>> of a nonterminal at position i of a Seq
\* alternative q of the rule A
nonterminal_occurrences ==
    {o \in UNION {{A} \X {a.ch : a \in {b \in SeqToSet(dict_get(rules, A).ch) : b.t = "Seq"}}
                      \X (1..8) : A \in nonterminals} :
        /\ o[3] <= Len(o[2])
        /\ o[2][o[3]].t = "Symbol"
        /\ o[2][o[3]].c \in nonterminals}

\* every element of q after position i derives Empty, up to position j
derive_empty(q, i, j) == \A k \in (i + 1)..j : Empty \in first_as_loaded(q[k])

\* First of the elements of q after position i, without Empty
first_after(q, i) ==
    UNION {{e \in first_as_loaded(q[k]) : ~is_empty(e)} :
              k \in {m \in (i + 1)..Len(q) : derive_empty(q, i, m - 1)}}

----------------------------------------------------------------------------
(* The First and Follow sets do not depend on the order of the visits *)

\* First of an element of a production: F[A] for a nonterminal A, the set
\* assigned before the loop for Empty and the terminals
first_given(F, x) == IF x.t = "Rule" THEN F[x.c] ELSE attr(first, x)

\* what the production q adds to the First set of its rule
added_by(F, q) ==
    UNION {{e \in first_given(F, q[i]) : ~is_empty(e)} :
              i \in {k \in 1..Len(q) : \A j \in 1..(k - 1) : Empty \in first_given(F, q[j])}}
    \cup (IF \A i \in 1..Len(q) : Empty \in first_given(F, q[i]) THEN {Empty} ELSE {})

\* the First sets no order of visits can exceed: the least sets closed under
\* the productions
RECURSIVE closed_first_from(_)
closed_first_from(F) ==
    IF \A A \in nonterminals : UNION {added_by(F, q) : q \in productions(A)} \subseteq F[A]
    THEN F
    ELSE closed_first_from([A \in nonterminals |->
                               F[A] \cup UNION {added_by(F, q) : q \in productions(A)}])
closed_first == closed_first_from([A \in nonterminals |-> {}])

\* what the occurrences of B in Seq alternatives add to Follow(B)
added_after(Fo, B) ==
    UNION {first_after(o[2], o[3])
               \cup (IF derive_empty(o[2], o[3], Len(o[2])) THEN Fo[o[1]] ELSE {}) :
           o \in {p \in nonterminal_occurrences : p[2][p[3]].c = B}}

\* the least Follow sets with EndOfText after the start symbol
RECURSIVE closed_follow_from(_)
closed_follow_from(Fo) ==
    IF \A B \in nonterminals : added_after(Fo, B) \subseteq Fo[B] THEN Fo
    ELSE closed_follow_from([B \in nonterminals |-> Fo[B] \cup added_after(Fo, B)])
closed_follow ==
    closed_follow_from([B \in nonterminals |->
                           IF B = start_symbol THEN {EndOfText} ELSE {}])

\* the sets of the run are inside F and Fo, and are F and Fo after Load
sets_settle_at(F, Fo) ==
    \A A \in nonterminals :
        /\ first_of(A) \subseteq F[A]
        /\ pc \in {"follow_while", "follow_for", "loaded"} => first_of(A) = F[A]
        /\ pc \in {"follow_while", "follow_for", "loaded"} => follow_of(A) \subseteq Fo[A]
        /\ pc = "loaded" => follow_of(A) = Fo[A]

\* C30: whatever the order in which a pass of compute_first_sets visits the
\* rules and a pass of compute_follow_sets visits the sequences of the rules,
\* the First and Follow sets after Load are the same sets: the visits only
\* add elements of these sets, and the loops end when they are reached.
C30_SetsIndependentOfOrder ==
    pc \in {"first_while", "first_for", "compute_follow", "follow_while", "follow_for", "loaded"}
        => sets_settle_at(closed_first, closed_follow)

\* a pass began with a sequence of another rule than the first of the
\* dictionary, and that visit added something
C30_Witness ==
    /\ pc = "follow_for" /\ keep_going
    /\ Cardinality(visited) = 1
    /\ \A e \in visited : e[1] # rules[1].k
    /\ \E A \in nonterminals : follow_of(A) # {} /\ A # start_symbol

----------------------------------------------------------------------------
(* The item-set loop of LALR1 at its exit *)

\* `while keep_going` is left with keep_going False, no limit given
loop_exited == pc = "lalr1_while" /\ ~keep_going /\ max_item_sets < 0

\* item_set.gotos(self, memo=by_index) called once more on item set S
further_gotos(S) ==
    gotos(rules, first, hash_order,
          [heap EXCEPT !.res = LALR1_item_sets_result, !.by_index = by_index], S, "lalr1")

\* a call of gotos on S finds no new core and adds no lookahead
finds_nothing(g) ==
    /\ ~g.err /\ ~g.changed
    /\ g.cores = item_set_core_index
    /\ g.by_index = by_index
    /\ g.res = LALR1_item_sets_result
    /\ g.las = las

further_round_finds_nothing ==
    \A S \in LALR1_item_sets_result : finds_nothing(further_gotos(S))

----------------------------------------------------------------------------
(* Grammar.item_set_core_index and the core_index of the item sets *)

\* self.item_set_core_index[core] of the cores that are registered
table_index(core) == (CHOOSE i \in 1..Len(item_set_core_index) : item_set_core_index[i] = core) - 1

core_table_injective ==
    \A i, j \in 1..Len(item_set_core_index) :
        item_set_core_index[i] = item_set_core_index[j] => i = j

\* the item sets closed with the Grammar object that is in use: LALR1 is
\* called on a Grammar of its own, whose first item set is the root item set
of_this_grammar ==
    IF 0 \in DOMAIN by_index THEN by_index[0]..Len(isets) ELSE 1..Len(isets)

\* the core_index that close stored on the item sets that are held
stored_index_is_table_index ==
    \A r \in of_this_grammar :
        /\ \E i \in 1..Len(item_set_core_index) :
              item_set_core_index[i] = kernel_core(isets[r].items)
        /\ isets[r].core_index = table_index(kernel_core(isets[r].items))

equal_cores_equal_index ==
    \A r, q \in of_this_grammar :
        kernel_core(isets[r].items) = kernel_core(isets[q].items)
            <=> isets[r].core_index = isets[q].core_index

\* the step stays with the Grammar object it started with
same_grammar == run_no' = run_no /\ pc # "LALR1"

\* what is registered stays registered under its index, and a new core gets
\* the next index
indices_kept ==
    /\ Len(item_set_core_index') >= Len(item_set_core_index)
    /\ \A i \in 1..Len(item_set_core_index) : item_set_core_index'[i] = item_set_core_index[i]
    /\ \A r \in 1..Len(isets) :
          r <= Len(isets') /\ isets'[r].core_index = isets[r].core_index

\* C32: on one Grammar the core-to-index table is injective with the indices
\* 0..n-1 in the order of registration, item sets with equal kernel cores have
\* the same index, the core_index stored by close is the index of the table,
\* and an index once given never changes.
C32_CoreIndexTable ==
    /\ [](core_table_injective /\ stored_index_is_table_index /\ equal_cores_equal_index)
    /\ [][same_grammar => indices_kept]_vars

\* two item sets with one kernel core and different lookaheads are held, and
\* several cores are registered
C32_Witness ==
    /\ Len(item_set_core_index) >= 3
    /\ \E r, q \in of_this_grammar :
          /\ r # q
          /\ kernel_core(isets[r].items) = kernel_core(isets[q].items)
          /\ iset_value(las, isets[r].items) # iset_value(las, isets[q].items)

----------------------------------------------------------------------------
(* The names add_rule writes during canonicalize_grammar *)

\* the keys of the add_rule calls made for the elements of Seq alternative i
RECURSIVE seq_names(_, _, _, _)
seq_names(key, i, item, j) ==
    IF j >= Len(item.ch) THEN <<>>
    ELSE (IF LeafRule(item.ch[j + 1]) THEN <<>> ELSE <<seq_item_key(key, i, j)>>)
         \o seq_names(key, i, item, j + 1)

\* the keys of the add_rule calls made in the body of the for loop for one
\* rule, in the order of the calls
RECURSIVE add_rule_names(_, _, _)
add_rule_names(key, value, i) ==
    IF LeafRule(value) \/ i >= Len(value.ch) THEN <<>>
    ELSE LET item == value.ch[i + 1] IN
         (CASE LeafRule(item) -> <<>>
            [] item.t = "Repeat1" -> <<item_key(key, i)>>
            [] item.t = "Choice" -> <<>>
            [] item.t = "Seq" -> seq_names(key, i, item, 0))
         \o add_rule_names(key, value, i + 1)

\* the body of the for loop is about to run for entry ci of the snapshot
at_rule_body == pc = "canon_for" /\ ci <= Len(snap)

\* no call of add_rule in this body writes a name that result has, and no two
\* calls write one name
writes_new_names(names) ==
    /\ \A n \in 1..Len(names) : ~dict_has(result, names[n])
    /\ \A n, m \in 1..Len(names) : names[n] = names[m] => n = m

\* C33: add_rule never assigns a name that already exists in result, be it
\* the name of an input rule or of an auxiliary rule of an earlier pass.
C33_AuxiliaryNamesWrittenOnce ==
    at_rule_body => writes_new_names(add_rule_names(snap[ci].k, snap[ci].v, 0))

----------------------------------------------------------------------------
(* The rule that canonicalize_grammar makes for a Repeat1 alternative *)

\* the entries add_rule(item_key, Seq([x, item_key]), empty) made
is_repeat1_entry(e) ==
    /\ ~dict_has(input_rules, e.k)
    /\ e.v.t = "Choice" /\ Len(e.v.ch) = 2
    /\ \E a \in 1..2 :
          /\ e.v.ch[a].t = "Seq" /\ Len(e.v.ch[a].ch) = 2
          /\ e.v.ch[a].ch[2] = Symbol(e.k)
          /\ e.v.ch[3 - a] = Empty

\* the x of such an entry
repeated_of(e) == e.v.ch[CHOOSE a \in 1..2 : e.v.ch[a].t = "Seq"].ch[1]

\* the strings of the entry are those of one or more x, given the languages L
derives_one_or_more(L, e) ==
    LET X == derived(rules, L, repeated_of(e))
    IN  /\ L[e.k] = derived_plus(X, X)
        /\ <<>> \in L[e.k] => <<>> \in X

\* C34: after canonicalization the rule that replaces a Repeat1(X)
\* alternative derives the concatenations of one or more strings of X (of at
\* most MaxLen terminals), and the empty string only if X derives it.
C34_Repeat1RuleDerivesOneOrMore ==
    canonicalized =>
        \A n \in 1..Len(rules) :
            is_repeat1_entry(rules[n]) => derives_one_or_more(Lang(rules), rules[n])

----------------------------------------------------------------------------
(* What a call of gotos(memo=by_index) in the item-set loop changes *)

\* the item sets the call returns in its goto list: the canonical item sets
\* it merged lookaheads into, and the item sets it found new
goto_targets(g) == {g.gl[n].ref : n \in 1..Len(g.gl)}

\* the statement `(changed,gotos) = item_set.gotos(self,memo=by_index)` is
\* about to run
at_gotos_call == pc = "lalr1_for" /\ ci <= Len(work_list)

\* item set r has the lookahead sets it had
lookaheads_kept(r) == iset_value(las', isets[r].items) = iset_value(las, isets[r].items)

\* C35: the merges of a call of gotos in the item-set loop of LALR1 change
\* the lookahead sets of the canonical item sets merged into only: every other
\* discovered item set has the same lookahead set for every item after the
\* call as before it.
C35_MergeChangesOnlyItsItemSet ==
    [][at_gotos_call =>
          \A r \in LALR1_item_sets_result \ goto_targets(further_gotos(work_list[ci])) :
              lookaheads_kept(r)]_vars

----------------------------------------------------------------------------
(* The alternatives a pass of canonicalize_grammar leaves alone *)

\* an alternative that is already flat: a leaf, or a Seq of leaves only
already_flat(a) ==
    \/ LeafRule(a)
    \/ a.t = "Seq" /\ \A j \in 1..Len(a.ch) : LeafRule(a.ch[j])

\* the alternatives of the entry for key in the mapping rs
alternatives_in(rs, key) ==
    IF ~dict_has(rs, key) THEN {}
    ELSE IF dict_get(rs, key).t = "Choice"
    THEN {dict_get(rs, key).ch[i] : i \in 1..Len(dict_get(rs, key).ch)}
    ELSE {dict_get(rs, key)}

\* C36: the body of the for loop of canonicalize_grammar keeps every
\* alternative of the rule's Choice that is already flat, also when it
\* rewrites another alternative of the same Choice.
C36_FlatAlternativesKept ==
    [][(at_rule_body /\ snap[ci].v.t = "Choice") =>
          \A i \in 1..Len(snap[ci].v.ch) :
              already_flat(snap[ci].v.ch[i])
                  => snap[ci].v.ch[i] \in alternatives_in(result', snap[ci].k)]_vars

----------------------------------------------------------------------------
(* Item sets of one kernel core *)

\* the items of an item set, without their lookahead sets
items_of(r) == {isets[r].items[i].k : i \in 1..Len(isets[r].items)}

same_core_same_items ==
    \A r, q \in of_this_grammar :
        kernel_core(isets[r].items) = kernel_core(isets[q].items) => items_of(r) = items_of(q)

\* LALR1 ended with an exception
raised_in_LALR1 == pc = "raised" /\ 0 \in DOMAIN by_index

\* C37: two item sets closed over one grammar that have equal kernel cores
\* have the same items, and LALR1 never ends with the exception of
\* ItemSet.merge for an item that the other item set does not have.
C37_EqualCoresEqualItems ==
    same_core_same_items /\ ~raised_in_LALR1

----------------------------------------------------------------------------
(* The item sets and the Shift actions LALR1 returns *)

\* the core indices of the item sets of the returned list
returned_indices == {isets[item_sets[i]].core_index : i \in 1..Len(item_sets)}

distinct_core_indices ==
    \A i, j \in 1..Len(item_sets) :
        isets[item_sets[i]].core_index = isets[item_sets[j]].core_index => i = j

\* the Shift actions of the action table
shift_actions ==
    {action_table[n].action : n \in {m \in 1..Len(action_table) : action_table[m].action.t = "Shift"}}

\* C38: when LALR1 returns, with or without max_item_sets, the returned item
\* sets have pairwise distinct core indices and every Shift action of the
\* action table has the core index of an item set of the returned list.
C38_ShiftTargetsReturned ==
    pc = "done" =>
        /\ distinct_core_indices
        /\ \A a \in shift_actions : a.index \in returned_indices

\* C38, amended: when LALR1 returns, with or without max_item_sets, the
\* returned item sets have pairwise distinct core indices; when it was
\* called without max_item_sets, every Shift action of the action table has
\* the core index of an item set of the returned list.
C38_ShiftTargetsReturnedWithoutLimit ==
    pc = "done" =>
        /\ distinct_core_indices
        /\ max_item_sets < 0 => \A a \in shift_actions : a.index \in returned_indices

\* LALR1 without a limit returned several item sets and Shift actions
C38_Witness ==
    /\ pc = "done" /\ max_item_sets < 0
    /\ Len(item_sets) >= 3
    /\ Cardinality(shift_actions) >= 2

----------------------------------------------------------------------------
(* C39: the line state machine of Processor.process *)

\* the step takes the line `line` of the for loop
takes_line == in_process /\ line_num' = line_num + 1

\* the step raises RuntimeError
raises == pc' = "process_raised"

\* from INITIAL a rule start line moves to the EXPECT_RULE_HEADER state of
\* its format
start_moves_to_header ==
    /\ (state = State.INITIAL /\ line = BS_START) => state' = State.BS_EXPECT_RULE_HEADER
    /\ (state = State.INITIAL /\ line = EBNF_START) => state' = State.EBNF_EXPECT_RULE_HEADER

\* from an EXPECT_RULE_HEADER state the rule-name line moves to the
\* EXPECT_ALTERNATIVE state of the same format
header_moves_to_alternative ==
    /\ (state = State.BS_EXPECT_RULE_HEADER /\ line = BS_DFN)
          => state' = State.BS_EXPECT_ALTERNATIVE
    /\ (state = State.EBNF_EXPECT_RULE_HEADER /\ line = TEXT_LINE)
          => state' = State.EBNF_EXPECT_ALTERNATIVE

\* blank lines and definition lines keep the state
blank_and_definition_keep_state ==
    (line = BLANK_LINE \/ line \in {KW_BS, KW_EBNF, SYN_BS, SYN_EBNF})
       => state' = state /\ ~raises

\* in an EXPECT_ALTERNATIVE state a line that is not blank, not a definition,
\* not the end of a rule and not an alternative raises
not_an_alternative_raises ==
    (/\ state \in {State.BS_EXPECT_ALTERNATIVE, State.EBNF_EXPECT_ALTERNATIVE}
     /\ line \in {BS_START, BS_DFN, EBNF_START, TEXT_LINE})
       => raises /\ state' = state

\* an alternative in an EXPECT_ALTERNATIVE state is taken
alternative_is_taken ==
    (/\ state \in {State.BS_EXPECT_ALTERNATIVE, State.EBNF_EXPECT_ALTERNATIVE}
     /\ line = ALTERNATIVE)
       => ~raises /\ state' = state

\* the rule that ends with the line is of the source of truth, has a name
\* and has no alternative
ends_empty_rule ==
    /\ (line = BS_END /\ options.sot_bs) \/ (line = EBNF_END /\ options.sot_ebnf)
    /\ current_def.name # ""
    /\ current_def.alternatives = <<>>

----------------------------------------------------------------------------
(* C40: the text that Processor.process emits *)

\* the line starts a rule: "<div class='syntax'" or "<!--:ebnf:rule"
is_start_rule(l) == bs_start_rule_re(l) \/ ebnf_start_rule_re(l)

\* the first n lines of the source leave a grammar rule block open: the last
\* of them that starts or ends a rule starts one
RECURSIVE in_rule_block(_, _)
in_rule_block(src, n) ==
    IF n = 0 THEN FALSE
    ELSE IF is_end_rule(src[n]) THEN FALSE
    ELSE IF is_start_rule(src[n]) THEN TRUE
    ELSE in_rule_block(src, n - 1)

\* the line n of the source lies outside every grammar rule block: no block
\* is open before it, and it does not open one
outside_rule_blocks(src, n) == ~in_rule_block(src, n - 1) /\ ~is_start_rule(src[n])

\* the non-grammar text of the first n lines of the source, in input order
RECURSIVE non_grammar_text(_, _)
non_grammar_text(src, n) ==
    IF n = 0 THEN <<>>
    ELSE IF outside_rule_blocks(src, n) /\ ~is_definition(src[n])
    THEN Append(non_grammar_text(src, n - 1), src[n])
    ELSE non_grammar_text(src, n - 1)

\* the lines of the result that have the text tag, in the order of the result
RECURSIVE text_lines(_)
text_lines(res) ==
    IF res = <<>> THEN <<>>
    ELSE IF Head(res).tag = TAG_TEXT THEN <<Head(res).line.name>> \o text_lines(Tail(res))
    ELSE text_lines(Tail(res))

\* C40: for every input and either source of truth, when process returns, the
\* lines it emitted with the text tag are, once and in input order, the input
\* lines outside every grammar rule block that are no keyword or syntax-token
\* definitions, blank lines after a rule block of the other format and
\* "</div>" lines included.
C40_TextEmittedOnceInOrder ==
    pc = "processed" => text_lines(self_result) = non_grammar_text(lines, Len(lines))

====
